---- MODULE Spec2Model ----
(***************************************************************************)
(* Browser resolver (skills/pdf/scripts/browser_helper.js) and the         *)
(* pagination driver (skills/kimi-pdf/scripts/html_to_pdf.js).             *)
(*                                                                         *)
(* A path is a record: the browser directory component the revision regex  *)
(* looks at, split into its name and its digits ("chromium-1095" is        *)
(* name "chromium", digits <<1,0,9,5>>), and the rest of the path below    *)
(* that directory.  JS null is NullPath, the empty string is EmptyPath,    *)
(* a null revision is NoRev.  The platform is linux.                       *)
(***************************************************************************)
EXTENDS Integers, Sequences, FiniteSets, TLC

\* ------------------------------------------------------------------------
\* Bounds of the model
\* ------------------------------------------------------------------------
MaxCacheEntries == 2

\* ------------------------------------------------------------------------
\* Values
\* ------------------------------------------------------------------------
NoRev == -1
NullPath == [name |-> "null", digits |-> <<>>, leaf |-> ""]
EmptyPath == [name |-> "", digits |-> <<>>, leaf |-> ""]

MkPath(name, digits, leaf) == [name |-> name, digits |-> digits, leaf |-> leaf]

\* Number.MAX_SAFE_INTEGER is 2^53 - 1; TLC's integers are 32 bits wide, so
\* the model uses the largest value it can hold.  Every revision of the model
\* is far below both.
MAX_SAFE_INTEGER == 2147483647

Falsy(p) == p = NullPath \/ p = EmptyPath

\* ------------------------------------------------------------------------
\* extractRevisionFromPath (browser_helper.js:66-70)
\* ------------------------------------------------------------------------
LowerCase(s) ==
  CASE s = "Chrome" -> "chrome"
    [] s = "Chromium" -> "chromium"
    [] OTHER -> s

RECURSIVE parseInt(_)
parseInt(digits) ==
  IF digits = <<>> THEN 0
  ELSE parseInt(SubSeq(digits, 1, Len(digits) - 1)) * 10 + digits[Len(digits)]

\* /(?:chromium|chrome|chromium_headless_shell)-(\d+)/i
RevisionRegexMatches(p) ==
  /\ LowerCase(p.name) \in {"chromium", "chrome", "chromium_headless_shell"}
  /\ Len(p.digits) > 0

extractRevisionFromPath(input) ==
  IF Falsy(input) THEN NoRev
  ELSE IF RevisionRegexMatches(input) THEN parseInt(input.digits) ELSE NoRev

\* ------------------------------------------------------------------------
\* File system probes
\* ------------------------------------------------------------------------
existsSync(p, world) == p \in world.exists

\* accessX as it would be if it tested existence (F_OK) instead of X_OK
accessX_ExistsOnly(p, world) == p \in world.exists

\* fs.accessSync(p, fs.constants.X_OK) does not throw
accessX(p, world) == p \in world.exec

\* ------------------------------------------------------------------------
\* loadPlaywright (browser_helper.js:13-55): TRUE when a module is returned,
\* FALSE when 'Playwright module not found' is thrown.
\* ------------------------------------------------------------------------
RECURSIVE SearchRootsLoad(_)
SearchRootsLoad(roots) ==
  IF roots = <<>> THEN FALSE
  ELSE IF Head(roots).pkg /\ Head(roots).loads THEN TRUE
  ELSE SearchRootsLoad(Tail(roots))

loadPlaywright(pw) ==
  IF pw.requireOk THEN TRUE ELSE SearchRootsLoad(pw.roots)

\* getDefaultChromiumPath (browser_helper.js:57-64)
getDefaultChromiumPath(chromiumInstance) ==
  IF ~chromiumInstance.present THEN NullPath
  ELSE IF chromiumInstance.throws THEN NullPath
  ELSE chromiumInstance.path

\* ------------------------------------------------------------------------
\* Cache scan (browser_helper.js:262-320)
\* ------------------------------------------------------------------------
LinuxLeaves ==
  << "chrome-linux/chrome", "chrome-linux/headless_shell",
     "chrome-linux/chromium", "chrome-linux64/chrome",
     "chrome-linux64/chromium", "chrome-linux64/headless_shell",
     "chrome-linux64/chrome-headless-shell" >>

RECURSIVE pushIfExists(_, _, _)
pushIfExists(baseDir, leaves, world) ==
  IF leaves = <<>> THEN <<>>
  ELSE LET target == MkPath(baseDir.name, baseDir.digits, Head(leaves))
           rest == pushIfExists(baseDir, Tail(leaves), world)
       IN IF existsSync(target, world) THEN <<target>> \o rest ELSE rest

getExecutableCandidates(baseDir, world) ==
  pushIfExists(baseDir, LinuxLeaves, world)

\* /(chromium|chrome)/i.test(entry)
EntryNameMatches(entry) ==
  LowerCase(entry.name) \in {"chromium", "chrome", "chromium_headless_shell"}

RECURSIVE TagRevision(_, _)
TagRevision(paths, revision) ==
  IF paths = <<>> THEN <<>>
  ELSE <<[path |-> Head(paths), revision |-> revision]>>
         \o TagRevision(Tail(paths), revision)

RECURSIVE collectCacheExecutables(_, _)
collectCacheExecutables(entries, world) ==
  IF entries = <<>> THEN <<>>
  ELSE LET entry == Head(entries)
           rest == collectCacheExecutables(Tail(entries), world)
       IN IF ~EntryNameMatches(entry) THEN rest
          ELSE TagRevision(getExecutableCandidates(entry, world),
                           extractRevisionFromPath(entry)) \o rest

\* getBrowserCacheDirectories().forEach(dir => collectCacheExecutables(dir))
RECURSIVE collectAllCaches(_, _)
collectAllCaches(dirs, world) ==
  IF dirs = <<>> THEN <<>>
  ELSE collectCacheExecutables(Head(dirs), world)
         \o collectAllCaches(Tail(dirs), world)

\* ------------------------------------------------------------------------
\* System browsers (browser_helper.js:322-379)
\* ------------------------------------------------------------------------
SysPath(cmd) == MkPath("usr-bin", <<>>, cmd)

DirectPaths ==
  << SysPath("chromium"), SysPath("chromium-browser"),
     MkPath("usr-lib-chromium", <<>>, "chromium"),
     MkPath("snap-bin", <<>>, "chromium"),
     SysPath("google-chrome"), SysPath("google-chrome-stable") >>

Commands ==
  << "chromium-browser", "chromium", "google-chrome", "google-chrome-stable",
     "chrome", "microsoft-edge", "msedge" >>

\* `command -v cmd`: the commands of the model live in /usr/bin
resolveSystemCommand(cmd, world) ==
  IF accessX(SysPath(cmd), world) THEN SysPath(cmd) ELSE NullPath

RECURSIVE ResolveCommands(_, _)
ResolveCommands(cmds, world) ==
  IF cmds = <<>> THEN <<>>
  ELSE LET resolved == resolveSystemCommand(Head(cmds), world)
           rest == ResolveCommands(Tail(cmds), world)
       IN IF ~Falsy(resolved) THEN <<resolved>> \o rest ELSE rest

collectSystemBrowsers(world) ==
  SelectSeq(DirectPaths, LAMBDA p : accessX(p, world))
    \o ResolveCommands(Commands, world)

\* ------------------------------------------------------------------------
\* findExistingChromium (browser_helper.js:139-189)
\* ------------------------------------------------------------------------
NoCandidate == [path |-> NullPath, revision |-> NoRev, source |-> "none"]

EmptyAcc == [candidates |-> <<>>, seen |-> {}]

\* addCandidate as it would be without the set of seen paths
addCandidate_NoSeen(acc, candidatePath, revision, source, world) ==
  IF Falsy(candidatePath) THEN acc
  ELSE IF ~accessX(candidatePath, world) THEN acc
  ELSE [candidates |-> Append(acc.candidates,
                              [path |-> candidatePath, revision |-> revision,
                               source |-> source]),
        seen |-> acc.seen \cup {candidatePath}]

addCandidate(acc, candidatePath, revision, source, world) ==
  IF Falsy(candidatePath) \/ candidatePath \in acc.seen THEN acc
  ELSE IF ~accessX(candidatePath, world) THEN acc
  ELSE [candidates |-> Append(acc.candidates,
                              [path |-> candidatePath, revision |-> revision,
                               source |-> source]),
        seen |-> acc.seen \cup {candidatePath}]

EnvNames == << "PLAYWRIGHT_CHROMIUM_PATH", "CHROMIUM_PATH", "BROWSER_PATH" >>

RECURSIVE AddEnv(_, _, _)
AddEnv(acc, names, world) ==
  IF names = <<>> THEN acc
  ELSE AddEnv(IF ~Falsy(world.env[Head(names)])
              THEN addCandidate(acc, world.env[Head(names)], NoRev, "env", world)
              ELSE acc,
              Tail(names), world)

RECURSIVE AddCache(_, _, _)
AddCache(acc, entries, world) ==
  IF entries = <<>> THEN acc
  ELSE AddCache(addCandidate(acc, Head(entries).path, Head(entries).revision,
                             "cache", world),
                Tail(entries), world)

RECURSIVE AddSystem(_, _, _)
AddSystem(acc, paths, world) ==
  IF paths = <<>> THEN acc
  ELSE AddSystem(addCandidate(acc, Head(paths), NoRev, "system", world),
                 Tail(paths), world)

collectCandidates(world) ==
  AddSystem(AddCache(AddEnv(EmptyAcc, EnvNames, world),
                     collectAllCaches(world.cacheDirs, world), world),
            collectSystemBrowsers(world), world).candidates

Abs(n) == IF n < 0 THEN -n ELSE n

\* score as it would be if the expected revision were ignored (newest first)
score_IgnoresExpected(candidate, expectedRevision) ==
  IF candidate.revision # NoRev THEN 100000 - candidate.revision
  ELSE MAX_SAFE_INTEGER

score(candidate, expectedRevision) ==
  IF expectedRevision # NoRev /\ candidate.revision # NoRev
  THEN Abs(candidate.revision - expectedRevision)
  ELSE IF candidate.revision # NoRev THEN 100000 - candidate.revision
  ELSE MAX_SAFE_INTEGER

\* the tie-break as it would be if it ignored the revisions
RevOrZero_AlwaysZero(revision) == 0

\* revision || 0
RevOrZero(revision) == IF revision = NoRev \/ revision = 0 THEN 0 ELSE revision

\* the comparator as it would be if it sorted the worst candidate first
compareCandidates_Reversed(a, b, expectedRevision) ==
  LET diff == score(b, expectedRevision) - score(a, expectedRevision)
  IN IF diff # 0 THEN diff
     ELSE RevOrZero(a.revision) - RevOrZero(b.revision)

compareCandidates(a, b, expectedRevision) ==
  LET diff == score(a, expectedRevision) - score(b, expectedRevision)
  IN IF diff # 0 THEN diff
     ELSE RevOrZero(b.revision) - RevOrZero(a.revision)

\* Array.prototype.sort is stable: an element goes after the elements that
\* do not compare greater than it.
RECURSIVE InsertSorted(_, _, _)
InsertSorted(sorted, c, expectedRevision) ==
  IF sorted = <<>> THEN <<c>>
  ELSE IF compareCandidates(Head(sorted), c, expectedRevision) <= 0
       THEN <<Head(sorted)>> \o InsertSorted(Tail(sorted), c, expectedRevision)
       ELSE <<c>> \o sorted

RECURSIVE sortCandidates(_, _)
sortCandidates(candidates, expectedRevision) ==
  IF candidates = <<>> THEN <<>>
  ELSE InsertSorted(
         sortCandidates(SubSeq(candidates, 1, Len(candidates) - 1),
                        expectedRevision),
         candidates[Len(candidates)], expectedRevision)

\* the scan as it would be if it never found a candidate
findExistingChromium_FindsNothing(expectedRevision, world) == NoCandidate

findExistingChromium(expectedRevision, world) ==
  LET candidates == collectCandidates(world)
  IN IF Len(candidates) = 0 THEN NoCandidate
     ELSE sortCandidates(candidates, expectedRevision)[1]

\* ------------------------------------------------------------------------
\* resolveChromium (browser_helper.js:72-137)
\* ------------------------------------------------------------------------
NoResult ==
  [status |-> "none", executablePath |-> NullPath, revision |-> NoRev,
   expectedRevision |-> NoRev, isFallback |-> FALSE, source |-> "none"]

NoError == [message |-> "", code |-> ""]

OkResult(expectedPath, expectedRevision) ==
  [status |-> "ok", executablePath |-> expectedPath,
   revision |-> extractRevisionFromPath(expectedPath),
   expectedRevision |-> expectedRevision, isFallback |-> FALSE,
   source |-> "default"]

\* fallback.revision || null
FallbackResult(fallback, expectedRevision) ==
  [status |-> "fallback", executablePath |-> fallback.path,
   revision |-> IF fallback.revision = 0 THEN NoRev ELSE fallback.revision,
   expectedRevision |-> expectedRevision, isFallback |-> TRUE,
   source |-> fallback.source]

\* expectedPath || ''
MissingResult(expectedPath, expectedRevision) ==
  [status |-> "missing",
   executablePath |-> IF Falsy(expectedPath) THEN EmptyPath ELSE expectedPath,
   revision |-> NoRev, expectedRevision |-> expectedRevision,
   isFallback |-> FALSE, source |-> "missing"]

InstalledResult(installedPath) ==
  [status |-> "installed", executablePath |-> installedPath,
   revision |-> extractRevisionFromPath(installedPath),
   expectedRevision |-> extractRevisionFromPath(installedPath),
   isFallback |-> FALSE, source |-> "install"]

LoadError ==
  [message |-> "Playwright module not found. Install it or set PLAYWRIGHT_PATH.",
   code |-> ""]

InstallError ==
  [message |-> "Failed to install Chromium via Playwright",
   code |-> "INSTALL_FAILED"]

\* InstallPermitted as it would be if the allowInstall option were ignored
InstallPermitted_Always(options) == TRUE

\* !allowInstall
InstallPermitted(options) == options.allowInstall

\* ExpectedPresent as it would be with the existence test inverted
ExpectedPresent_Inverted(expectedPath, world) ==
  ~Falsy(expectedPath) /\ ~existsSync(expectedPath, world)

\* expectedPath && fs.existsSync(expectedPath)
ExpectedPresent(expectedPath, world) ==
  ~Falsy(expectedPath) /\ existsSync(expectedPath, world)

\* spawnSync('npx', ['playwright', 'install', 'chromium']): the installer
\* exits with inst.status and, when inst.creates, has put an executable at
\* the path Playwright expects.
spawnInstaller(world, inst) ==
  LET target == getDefaultChromiumPath(world.chromium)
  IN IF inst.creates /\ ~Falsy(target)
     THEN [world EXCEPT !.exists = @ \cup {target}, !.exec = @ \cup {target}]
     ELSE world

\* InstallSucceeded as it would be if the installer's exit status were ignored
InstallSucceeded_IgnoresStatus(inst, installedPath, worldAfter) ==
  ~Falsy(installedPath) /\ existsSync(installedPath, worldAfter)

\* installResult.status === 0 and the re-checked path exists
InstallSucceeded(inst, installedPath, worldAfter) ==
  inst.status = 0 /\ ~Falsy(installedPath) /\ existsSync(installedPath, worldAfter)

\* Returned as it would be if the resolver left a file at the path it reports
Returned_TouchesPath(result, world, scans, installs) ==
  [outcome |-> "returned", result |-> result, error |-> NoError,
   world |-> [world EXCEPT !.exists = @ \cup {result.executablePath}],
   scanRuns |-> scans, installRuns |-> installs]

Returned(result, world, scans, installs) ==
  [outcome |-> "returned", result |-> result, error |-> NoError,
   world |-> world, scanRuns |-> scans, installRuns |-> installs]

\* Thrown as it would be if failures were returned as a result tagged 'error'
Thrown_AsErrorResult(error, world, scans, installs) ==
  [outcome |-> "returned", result |-> [NoResult EXCEPT !.status = "error"],
   error |-> error, world |-> world, scanRuns |-> scans, installRuns |-> installs]

Thrown(error, world, scans, installs) ==
  [outcome |-> "thrown", result |-> NoResult, error |-> error,
   world |-> world, scanRuns |-> scans, installRuns |-> installs]

\* options: [chromiumGiven, allowInstall]; inst: what the installer would do
\* if it were run.  The value tells how the call ended, the world it left
\* and how often the fallback scan and the installer ran.
resolveChromium(options, world, inst) ==
  IF ~options.chromiumGiven /\ ~loadPlaywright(world.pw)
  THEN Thrown(LoadError, world, 0, 0)
  ELSE
    LET expectedPath == getDefaultChromiumPath(world.chromium)
        expectedRevision == extractRevisionFromPath(expectedPath)
        fallback == findExistingChromium(expectedRevision, world)
        worldAfter == spawnInstaller(world, inst)
        installedPath == getDefaultChromiumPath(worldAfter.chromium)
    IN IF ExpectedPresent(expectedPath, world)
       THEN Returned(OkResult(expectedPath, expectedRevision), world, 0, 0)
       ELSE IF fallback # NoCandidate
       THEN Returned(FallbackResult(fallback, expectedRevision), world, 1, 0)
       ELSE IF ~InstallPermitted(options)
       THEN Returned(MissingResult(expectedPath, expectedRevision), world, 1, 0)
       ELSE IF InstallSucceeded(inst, installedPath, worldAfter)
       THEN Returned(InstalledResult(installedPath), worldAfter, 1, 1)
       ELSE Thrown(InstallError, worldAfter, 1, 1)

\* ------------------------------------------------------------------------
\* The worlds the resolver is run in
\* ------------------------------------------------------------------------
ExpDefault == MkPath("chromium", <<5>>, "chrome-linux/chrome")
ExpHeadless == MkPath("chromium_headless_shell", <<1, 0>>, "chrome-linux/headless_shell")
ExpCustom == MkPath("custom", <<>>, "chrome")

ChromiumInstances ==
  {[present |-> TRUE, throws |-> TRUE, path |-> NullPath]}
    \cup {[present |-> TRUE, throws |-> FALSE, path |-> p] :
            p \in {ExpDefault, ExpHeadless, ExpCustom}}

Entry(name, digits) == MkPath(name, digits, "")

CachePath(entry) == MkPath(entry.name, entry.digits, "chrome-linux/chrome")

EnvA == MkPath("opt", <<>>, "chrome")
EnvB == CachePath(Entry("chromium", <<3>>))
Unset == EmptyPath

Environments ==
  { [n \in {"PLAYWRIGHT_CHROMIUM_PATH", "CHROMIUM_PATH", "BROWSER_PATH"} |->
       CASE n = "PLAYWRIGHT_CHROMIUM_PATH" -> a
         [] n = "CHROMIUM_PATH" -> b
         [] OTHER -> c] :
    a \in {Unset, EnvA}, b \in {Unset, EnvB}, c \in {Unset, EnvA} }

NoEnvironment ==
  [n \in {"PLAYWRIGHT_CHROMIUM_PATH", "CHROMIUM_PATH", "BROWSER_PATH"} |-> Unset]

FileStates == {"absent", "file", "exec"}

\* readdir order of the cache directory
CacheEntrySeq ==
  << Entry("chromium", <<3>>), Entry("Chrome", <<7>>), Entry("chromium", <<1, 0>>),
     Entry("chromium", <<>>), Entry("firefox", <<7>>) >>

\* the entries of CacheEntrySeq at the indices in S, in readdir order
RECURSIVE ListingOf(_, _)
ListingOf(S, i) ==
  IF i > Len(CacheEntrySeq) THEN <<>>
  ELSE (IF i \in S THEN <<CacheEntrySeq[i]>> ELSE <<>>) \o ListingOf(S, i + 1)

\* directory listings with at most n entries
DistinctListings(n) ==
  { ListingOf(S, 1) : S \in {T \in SUBSET (1..Len(CacheEntrySeq)) : Cardinality(T) <= n} }

PlaywrightDefault == [requireOk |-> TRUE, roots |-> <<>>]

PlaywrightInstalls ==
  { PlaywrightDefault,
    [requireOk |-> FALSE, roots |-> <<>>],
    [requireOk |-> FALSE, roots |-> <<[pkg |-> FALSE, loads |-> FALSE]>>],
    [requireOk |-> FALSE, roots |-> <<[pkg |-> TRUE, loads |-> FALSE]>>],
    [requireOk |-> FALSE,
     roots |-> <<[pkg |-> TRUE, loads |-> FALSE], [pkg |-> TRUE, loads |-> TRUE]>>] }

\* the world with the given files: expState, cacheState[i] and sysState are
\* the file states of the expected path, of the i-th cache entry's
\* chrome-linux/chrome and of /usr/bin/chromium
MkWorld(chromiumInstance, expState, listing, cacheState, environment, sysState, pw) ==
  LET expected == IF chromiumInstance.throws THEN {} ELSE {chromiumInstance.path}
      files(st) ==
        {p \in expected : expState \in st}
          \cup {CachePath(listing[i]) : i \in {k \in 1..Len(listing) : cacheState[k] \in st}}
          \cup {EnvA}
          \cup {p \in {SysPath("chromium")} : sysState \in st}
  IN [chromium |-> chromiumInstance, exists |-> files({"file", "exec"}),
      exec |-> files({"exec"}), env |-> environment,
      cacheDirs |-> <<listing>>, pw |-> pw]

ExpectedStates(ci) == IF ci.throws THEN {"absent"} ELSE FileStates

\* Playwright fails to load only in worlds with an empty cache and
\* environment: nothing else is looked at when it does
PlaywrightFor(listing, environment) ==
  IF listing = <<>> /\ environment = NoEnvironment
  THEN PlaywrightInstalls ELSE {PlaywrightDefault}

InstallerOutcomes == [status : {0, 1}, creates : BOOLEAN]
NoInstall == [status |-> 0, creates |-> FALSE]

\* ------------------------------------------------------------------------
\* State
\* ------------------------------------------------------------------------
VARIABLES
  world,   \* file system, environment, Playwright installation
  rpc,     \* resolver call: "idle" before it, "done" after it
  call,    \* the last call of resolveChromium: its options and the world it saw
  ret,     \* how that call ended
  scan     \* what findExistingChromium saw and chose in that call

resolverVars == <<world, rpc, call, ret, scan>>

VARIABLES
  input,          \* command line, input files and environment of html_to_pdf.js
  dpc,            \* where the driver is
  exitCode,       \* exit status of the process, -1 while it runs
  browser,        \* "none", "open" or "closed"
  launchReport,   \* the class a launch failure was reported under, and its message
  launchOptions,  \* the options chromium.launch was called with, and the
                  \* executable it starts
  pdfExported,    \* page.pdf has written the output file
  elapsed,        \* Date.now() - startTime
  lastPageCount,
  stableCount,
  samples,        \* the polled page counts, the four latest at most
  timedOut,       \* "none", "firstPage" or "stability"
  failedStep,     \* the step of the try block that threw, "" if none did
  log,            \* the browser operations begun so far, in order, and the
                  \* end of the stability loop
  htmlContent,    \* the driver's string of the same name
  document        \* the document the page has loaded

pagingVars == <<elapsed, lastPageCount, stableCount, samples, timedOut>>

docVars == <<htmlContent, document>>

driverVars ==
  <<input, dpc, exitCode, browser, launchReport, launchOptions, pdfExported,
    pagingVars, failedStep, log, docVars>>

VARIABLES
  cli,     \* the last run of browser_helper.js as a command
  setup    \* the last run of setup.sh

VARIABLES
  first,   \* the first of two calls of resolveChromium in a row
  parsed,  \* a command line of html_to_pdf.js and what parseArgs made of it
  shell    \* a run of setup.sh's verdict or of pdf.sh

otherVars == <<first, parsed, shell>>

helperVars == <<cli, setup, otherVars>>

vars == <<resolverVars, driverVars, helperVars>>

NoCall ==
  [allowInstall |-> FALSE, haveChromium |-> FALSE, world |-> [none |-> TRUE],
   inst |-> NoInstall]

NoRet ==
  [outcome |-> "none", result |-> NoResult, error |-> NoError,
   scanRuns |-> 0, installRuns |-> 0]

NoScan ==
  [ran |-> FALSE, expectedRevision |-> NoRev, candidates |-> <<>>,
   chosen |-> NoCandidate]

ScanOf(w) ==
  LET expectedRevision == extractRevisionFromPath(getDefaultChromiumPath(w.chromium))
  IN [ran |-> TRUE, expectedRevision |-> expectedRevision,
      candidates |-> collectCandidates(w),
      chosen |-> findExistingChromium(expectedRevision, w)]

WorldWithListing(n) ==
  \E ci \in ChromiumInstances, l \in DistinctListings(n) :
    \E es \in ExpectedStates(ci), cs \in [1..Len(l) -> FileStates],
       e \in Environments, ss \in {"absent", "exec"} :
      \E pw \in PlaywrightFor(l, e) :
        world = MkWorld(ci, es, l, cs, e, ss, pw)

InitWorld == WorldWithListing(MaxCacheEntries)

NoLaunchOptions == [headless |-> FALSE, executablePath |-> NullPath, starts |-> NullPath]

NoLaunchReport == [class |-> "none", message |-> {}]

\* an HTML text is the sequence of its parts
NoHtml == <<>>
HtmlWithHead == <<"<head>", "</head>", "<body>">>
HtmlWithoutHead == <<"<body>">>

NoInput ==
  [help |-> FALSE, fileExists |-> FALSE, skipInstall |-> FALSE, css |-> "none",
   html |-> NoHtml]

\* html_to_pdf.js:410-413
PagingStart ==
  /\ elapsed = 0
  /\ lastPageCount = 0
  /\ stableCount = 0
  /\ samples = <<>>
  /\ timedOut = "none"

\* neither browser_helper.js nor setup.sh has been run as a command
NoCli ==
  [ran |-> FALSE, allowInstall |-> FALSE, json |-> FALSE, printed |-> <<>>,
   stdout |-> <<>>, stderr |-> <<>>, exit |-> -1]

NoSetup == [mode |-> "none", BROWSER_STATUS |-> <<>>, browser_state |-> <<>>]

NoFirst == [ran |-> FALSE]

NoParsed == [ran |-> FALSE]

NoShell == [ran |-> FALSE]

OthersOff == first = NoFirst /\ parsed = NoParsed /\ shell = NoShell

HelperOff == cli = NoCli /\ setup = NoSetup /\ OthersOff

\* the driver is not running
DriverOff ==
  /\ input = NoInput
  /\ dpc = "off"
  /\ exitCode = -1
  /\ browser = "none"
  /\ launchReport = NoLaunchReport
  /\ launchOptions = NoLaunchOptions
  /\ pdfExported = FALSE
  /\ failedStep = ""
  /\ log = <<>>
  /\ htmlContent = NoHtml
  /\ document = NoHtml
  /\ PagingStart

InitResolver ==
  /\ InitWorld
  /\ DriverOff
  /\ HelperOff
  /\ rpc = "idle"
  /\ call = NoCall
  /\ ret = NoRet
  /\ scan = NoScan

\* one call of resolveChromium(options)
ResolveCall ==
  /\ rpc = "idle"
  /\ \E allowInstall \in BOOLEAN, chromiumGiven \in BOOLEAN, inst \in InstallerOutcomes :
       \E r \in {resolveChromium([chromiumGiven |-> chromiumGiven,
                                    allowInstall |-> allowInstall], world, inst)} :
          /\ world' = r.world
          /\ ret' = [outcome |-> r.outcome, result |-> r.result, error |-> r.error,
                     scanRuns |-> r.scanRuns, installRuns |-> r.installRuns]
          /\ call' = [allowInstall |-> allowInstall,
                      haveChromium |-> chromiumGiven \/ loadPlaywright(world.pw),
                      world |-> world,
                      inst |-> IF r.installRuns > 0 THEN inst ELSE NoInstall]
          /\ scan' = IF r.scanRuns > 0 THEN ScanOf(world) ELSE NoScan
  /\ rpc' = "done"
  /\ UNCHANGED <<driverVars, helperVars>>

NextResolver == ResolveCall

SpecResolver == InitResolver /\ [][NextResolver]_vars

\* ------------------------------------------------------------------------
\* html_to_pdf.js: pagination wait (lines 408-444)
\* ------------------------------------------------------------------------
maxWaitTime == 120000
FirstPageTimeoutMs == 120000
PollInterval == 1000
StableChecks == 3

\* while (stableCount < 3)
LoopContinues(stable) == stable < StableChecks

\* the deadline test as it would be if it allowed one more poll interval
DeadlinePassed_OnePollLate(t) == t > maxWaitTime + PollInterval

\* Date.now() - startTime > maxWaitTime
DeadlinePassed(t) == t > maxWaitTime

\* pollUpdate as it would be if the changed sample itself counted as the
\* first of the three
pollUpdate_CountsFirstSample(currentPageCount, last, stable) ==
  IF currentPageCount = last
  THEN [stableCount |-> stable + 1, lastPageCount |-> last]
  ELSE [stableCount |-> 1, lastPageCount |-> currentPageCount]

\* lines 433-439
pollUpdate(currentPageCount, last, stable) ==
  IF currentPageCount = last
  THEN [stableCount |-> stable + 1, lastPageCount |-> last]
  ELSE [stableCount |-> 0, lastPageCount |-> currentPageCount]

\* the four latest samples
Remember(window, c) ==
  IF Len(window) < 4 THEN Append(window, c) ELSE Append(Tail(window), c)

\* the browser operation a step of the try block begins with, if the log
\* keeps it
OpsOf(step) ==
  CASE step = "newPage" -> <<"newPage">>
    [] step = "goto" -> <<"goto">>
    [] step = "inject" -> <<"addScriptTag">>
    [] step = "waitFirstPage" -> <<"waitForFunction">>
    [] step = "pdf" -> <<"pdf">>
    [] OTHER -> <<>>

\* page.waitForFunction(pages > 0, {timeout: 120000}) resolves after d ms
WaitFirstPage(delays) ==
  /\ dpc = "waitFirstPage"
  /\ \E d \in delays :
       /\ d <= FirstPageTimeoutMs
       /\ elapsed' = elapsed + d
  /\ dpc' = "stability"
  /\ log' = log \o OpsOf("waitFirstPage")
  /\ UNCHANGED <<helperVars, docVars, resolverVars, input, exitCode, browser, launchReport, launchOptions, pdfExported,
                 lastPageCount, stableCount, samples, timedOut, failedStep>>

\* page.waitForFunction throws its TimeoutError
FirstPageTimeout ==
  /\ dpc = "waitFirstPage"
  /\ elapsed' = elapsed + FirstPageTimeoutMs
  /\ timedOut' = "firstPage"
  /\ dpc' = "catch"
  /\ log' = log \o OpsOf("waitFirstPage")
  /\ UNCHANGED <<helperVars, docVars, resolverVars, input, exitCode, browser, launchReport, launchOptions, pdfExported,
                 lastPageCount, stableCount, samples, failedStep>>

\* one iteration of the stability loop: deadline test, delay(1000), poll
Poll(counts, latencies) ==
  /\ dpc = "stability"
  /\ LoopContinues(stableCount)
  /\ ~DeadlinePassed(elapsed)
  /\ \E currentPageCount \in counts, latency \in latencies :
       \E u \in {pollUpdate(currentPageCount, lastPageCount, stableCount)} :
         /\ elapsed' = elapsed + PollInterval + latency
         /\ stableCount' = u.stableCount
         /\ lastPageCount' = u.lastPageCount
         /\ samples' = Remember(samples, currentPageCount)
  /\ UNCHANGED <<helperVars, docVars, resolverVars, input, dpc, exitCode, browser, launchReport, launchOptions,
                 pdfExported, timedOut, failedStep, log>>

\* 'Warning: Pagination timeout, proceeding with current state'; break
PaginationTimeout ==
  /\ dpc = "stability"
  /\ LoopContinues(stableCount)
  /\ DeadlinePassed(elapsed)
  /\ timedOut' = "stability"
  /\ dpc' = "paginated"
  /\ log' = Append(log, "loopEnd")
  /\ UNCHANGED <<helperVars, docVars, resolverVars, input, exitCode, browser, launchReport, launchOptions, pdfExported,
                 elapsed, lastPageCount, stableCount, samples, failedStep>>

\* the loop condition fails: 'Pagination complete'
PaginationComplete ==
  /\ dpc = "stability"
  /\ ~LoopContinues(stableCount)
  /\ dpc' = "paginated"
  /\ log' = Append(log, "loopEnd")
  /\ UNCHANGED <<helperVars, docVars, resolverVars, input, exitCode, browser, launchReport, launchOptions, pdfExported,
                 pagingVars, failedStep>>

\* ------------------------------------------------------------------------
\* html_to_pdf.js: the run of the driver
\* ------------------------------------------------------------------------
\* launchError.message, as the set of the substrings it is searched for
LaunchMessages == SUBSET {"shared libraries", ".so", "ENOENT", "executable"}

\* the classification as it would be with the two tests in the other order
classifyLaunchError_ExecutableFirst(errorMsg) ==
  IF "ENOENT" \in errorMsg \/ "executable" \in errorMsg THEN "executable"
  ELSE IF "shared libraries" \in errorMsg \/ ".so" \in errorMsg THEN "libraries"
  ELSE "generic"

\* lines 147-175
classifyLaunchError(errorMsg) ==
  IF "shared libraries" \in errorMsg \/ ".so" \in errorMsg THEN "libraries"
  ELSE IF "ENOENT" \in errorMsg \/ "executable" \in errorMsg THEN "executable"
  ELSE "generic"

\* process.env.PDF_SKIP_BROWSER_INSTALL === '1' ? false : true
allowInstallOf(in) == ~in.skipInstall

\* process.exit(1) for a missing input file, process.exit(2) for status
\* 'missing', process.exit(1) in the catch block of the conversion
MissingInputExit == 1
BrowserMissingExit == 2
ConversionFailedExit == 1

\* the input check as it would be if it never found the file missing
InputMissing_Never(in) == FALSE

\* !fs.existsSync(inputFile), line 85
InputMissing(in) == ~in.fileExists

\* fs.readFileSync(inputPath, 'utf-8'), line 119; the page loads the same
\* file from 'file://' + inputPath, lines 186-189
readFile(in) == in.html

\* `<style>${cssContent}</style>`, line 128
cssTag == "<style>css</style>"

FirstIndex(text, part) ==
  CHOOSE i \in DOMAIN text : text[i] = part /\ \A j \in 1..(i - 1) : text[j] # part

\* lines 131-135: before the first </head>, or in front of the text
injectCSS(content, tag) ==
  IF \E i \in DOMAIN content : content[i] = "</head>"
  THEN LET i == FirstIndex(content, "</head>")
       IN SubSeq(content, 1, i - 1) \o <<tag, "</head>">>
            \o SubSeq(content, i + 1, Len(content))
  ELSE <<tag>> \o content

\* what the synchronous start of the script does with the resolver's answer:
\* the exit status, or -1 to go on to the launch
PrepareVerdict(in, r) ==
  IF r.outcome = "thrown" THEN 1
  ELSE IF r.result.status = "missing" THEN BrowserMissingExit
  ELSE IF in.css = "absent" THEN 1
  ELSE -1

\* lines 14, 593-599, 28-66, 83-136: module load, parseArgs, input check,
\* resolveChromium, CSS file check; all synchronous
Prepare ==
  /\ dpc = "start"
  /\ IF ~loadPlaywright(world.pw)
     THEN /\ exitCode' = 1
          /\ UNCHANGED resolverVars
     ELSE IF input.help
     THEN /\ exitCode' = 0
          /\ UNCHANGED resolverVars
     ELSE IF InputMissing(input)
     THEN /\ exitCode' = MissingInputExit
          /\ UNCHANGED resolverVars
     ELSE \E inst \in InstallerOutcomes :
            \E r \in {resolveChromium([chromiumGiven |-> TRUE,
                                       allowInstall |-> allowInstallOf(input)],
                                      world, inst)} :
              /\ world' = r.world
              /\ ret' = [outcome |-> r.outcome, result |-> r.result,
                         error |-> r.error, scanRuns |-> r.scanRuns,
                         installRuns |-> r.installRuns]
              /\ call' = [allowInstall |-> allowInstallOf(input),
                          haveChromium |-> TRUE, world |-> world,
                          inst |-> IF r.installRuns > 0 THEN inst ELSE NoInstall]
              /\ scan' = IF r.scanRuns > 0 THEN ScanOf(world) ELSE NoScan
              /\ rpc' = "done"
              /\ exitCode' = PrepareVerdict(input, r)
  /\ dpc' = IF exitCode' = -1 THEN "launch" ELSE "exited"
  /\ htmlContent' = IF exitCode' = -1
                    THEN IF input.css = "present"
                         THEN injectCSS(readFile(input), cssTag)
                         ELSE readFile(input)
                    ELSE htmlContent
  /\ UNCHANGED <<helperVars, document, input, browser, launchReport, launchOptions, pdfExported,
                 pagingVars, failedStep, log>>

\* the options as they would be if the resolver's path were never passed
buildLaunchOptions_NeverExplicit(browserInfo, w) ==
  [headless |-> TRUE, executablePath |-> NullPath,
   starts |-> getDefaultChromiumPath(w.chromium)]

\* lines 141-145; without an executablePath chromium.launch starts
\* chromium.executablePath()
buildLaunchOptions(browserInfo, w) ==
  LET explicit == IF browserInfo # NoResult /\ browserInfo.isFallback
                      /\ ~Falsy(browserInfo.executablePath)
                  THEN browserInfo.executablePath ELSE NullPath
  IN [headless |-> TRUE, executablePath |-> explicit,
      starts |-> IF explicit # NullPath THEN explicit
                 ELSE getDefaultChromiumPath(w.chromium)]

\* await chromium.launch(launchOptions), lines 139-176
Launch ==
  /\ dpc = "launch"
  /\ log' = Append(log, "launch")
  /\ launchOptions' = buildLaunchOptions(ret.result, world)
  /\ \/ /\ browser' = "open"
        /\ dpc' = "newPage"
        /\ UNCHANGED <<exitCode, launchReport>>
     \/ \E errorMsg \in LaunchMessages :
          /\ launchReport' = [class |-> classifyLaunchError(errorMsg),
                              message |-> errorMsg]
          /\ exitCode' = 1
          /\ dpc' = "exited"
          /\ UNCHANGED browser
  /\ UNCHANGED <<helperVars, docVars, resolverVars, input, pdfExported, pagingVars, failedStep>>

\* the awaited steps of the try block, in program order
TrySteps ==
  << "newPage", "goto", "preparePage", "inject", "waitFirstPage", "stability",
     "paginated", "analyze", "pdf", "report" >>

\* the try block as it would be if it exported right after the page checks
StepAfter_ExportsFirst(step) ==
  CASE step = "newPage" -> "goto"
    [] step = "goto" -> "preparePage"
    [] step = "preparePage" -> "pdf"
    [] step = "paginated" -> "analyze"
    [] step = "analyze" -> "pdf"
    [] step = "pdf" -> "report"
    [] step = "report" -> "finally"

StepAfter(step) ==
  CASE step = "newPage" -> "goto"
    [] step = "goto" -> "preparePage"
    [] step = "preparePage" -> "inject"
    [] step = "paginated" -> "analyze"
    [] step = "analyze" -> "pdf"
    [] step = "pdf" -> "report"
    [] step = "report" -> "finally"

\* a step that only passes control on: browser.newPage, page.goto (network
\* idle), the counter checks (page.evaluate), the final delay(1000), the
\* overflow and content analysis (page.evaluate), the report (fs.statSync)
PageStep(step) ==
  /\ dpc = step
  /\ dpc' = StepAfter(step)
  /\ log' = log \o OpsOf(step)
  /\ document' = IF step = "goto" THEN readFile(input) ELSE document
  /\ UNCHANGED <<helperVars, htmlContent, resolverVars, input, exitCode, browser, launchReport, launchOptions, pdfExported,
                 pagingVars, failedStep>>

NewPage == PageStep("newPage")
Goto == PageStep("goto")
PreparePage == PageStep("preparePage")
FinalDelay == PageStep("paginated")
Analyze == PageStep("analyze")
Report == PageStep("report")

\* page.addScriptTag, then lines 410-413
InjectPagedJs ==
  /\ dpc = "inject"
  /\ dpc' = "waitFirstPage"
  /\ elapsed' = 0
  /\ lastPageCount' = 0
  /\ stableCount' = 0
  /\ samples' = <<>>
  /\ timedOut' = "none"
  /\ log' = log \o OpsOf("inject")
  /\ UNCHANGED <<helperVars, docVars, resolverVars, input, exitCode, browser, launchReport, launchOptions, pdfExported,
                 failedStep>>

\* await page.pdf({path: outputPath, ...})
ExportPdf ==
  /\ dpc = "pdf"
  /\ pdfExported' = TRUE
  /\ dpc' = StepAfter("pdf")
  /\ log' = log \o OpsOf("pdf")
  /\ UNCHANGED <<helperVars, docVars, resolverVars, input, exitCode, browser, launchReport, launchOptions, pagingVars,
                 failedStep>>

\* an awaited call of the try block rejects, for a reason other than the
\* first-page timeout
StepFails ==
  /\ \E i \in DOMAIN TrySteps : dpc = TrySteps[i]
  /\ failedStep' = dpc
  /\ dpc' = "catch"
  /\ log' = log \o OpsOf(dpc)
  /\ UNCHANGED <<helperVars, docVars, resolverVars, input, exitCode, browser, launchReport, launchOptions, pdfExported,
                 pagingVars>>

\* catch (error) { ...; process.exit(1) }, lines 583-586
Catch ==
  /\ dpc = "catch"
  /\ exitCode' = ConversionFailedExit
  /\ dpc' = "exited"
  /\ UNCHANGED <<helperVars, docVars, resolverVars, input, browser, launchReport, launchOptions, pdfExported,
                 pagingVars, failedStep, log>>

\* finally { await browser.close() }, lines 587-589
Finally ==
  /\ dpc = "finally"
  /\ browser' = "closed"
  /\ dpc' = "return"
  /\ log' = Append(log, "close")
  /\ UNCHANGED <<helperVars, docVars, resolverVars, input, exitCode, launchReport, launchOptions, pdfExported,
                 pagingVars, failedStep>>

\* convertHTMLToPDF and the entry point return; the process ends
ProcessEnds ==
  /\ dpc = "return"
  /\ exitCode' = 0
  /\ dpc' = "exited"
  /\ UNCHANGED <<helperVars, docVars, resolverVars, input, browser, launchReport, launchOptions, pdfExported,
                 pagingVars, failedStep, log>>

\* ------------------------------------------------------------------------
\* Specification of the whole driver
\* ------------------------------------------------------------------------
DriverMaxPages == 1

DriverFirstPageDelays == {0, 119000}
DriverLatencies == {0, 59000}

DriverInputs ==
  { [NoInput EXCEPT !.help = TRUE], NoInput }
    \cup [help : {FALSE}, fileExists : {TRUE}, skipInstall : BOOLEAN,
          css : {"none", "present", "absent"},
          html : {HtmlWithHead, HtmlWithoutHead}]

\* the driver's worlds: Playwright's chromium-5 and /usr/bin/chromium, each
\* there or not
DriverWorlds ==
  { MkWorld([present |-> TRUE, throws |-> FALSE, path |-> ExpDefault], es,
            <<>>, <<>>, NoEnvironment, ss, PlaywrightDefault) :
      es \in {"absent", "exec"}, ss \in {"absent", "exec"} }

Init ==
  /\ world \in DriverWorlds
  /\ rpc = "idle"
  /\ call = NoCall
  /\ ret = NoRet
  /\ scan = NoScan
  /\ input \in DriverInputs
  /\ HelperOff
  /\ dpc = "start"
  /\ exitCode = -1
  /\ browser = "none"
  /\ launchReport = NoLaunchReport
  /\ launchOptions = NoLaunchOptions
  /\ pdfExported = FALSE
  /\ failedStep = ""
  /\ log = <<>>
  /\ htmlContent = NoHtml
  /\ document = NoHtml
  /\ PagingStart

Next ==
  \/ Prepare
  \/ Launch
  \/ NewPage
  \/ Goto
  \/ PreparePage
  \/ InjectPagedJs
  \/ WaitFirstPage(DriverFirstPageDelays)
  \/ FirstPageTimeout
  \/ Poll(0..DriverMaxPages, DriverLatencies)
  \/ PaginationTimeout
  \/ PaginationComplete
  \/ FinalDelay
  \/ Analyze
  \/ ExportPdf
  \/ Report
  \/ StepFails
  \/ Catch
  \/ Finally
  \/ ProcessEnds

Spec == Init /\ [][Next]_vars

\* ------------------------------------------------------------------------
\* Specification of the pagination wait alone, with every page count up to
\* MaxPages and polls one or two seconds apart
\* ------------------------------------------------------------------------
MaxPages == 5

PagingFirstPageDelays == {0, 1000, 117000, 120000}
PagingLatencies == {0, 1000}

\* the driver has resolved the default browser, launched it, loaded the
\* page and injected Paged.js
InitPaging ==
  /\ \E w \in {x \in DriverWorlds : ExpDefault \in x.exec
                                       /\ SysPath("chromium") \notin x.exists} :
       \E r \in {resolveChromium([chromiumGiven |-> TRUE, allowInstall |-> TRUE],
                                 w, NoInstall)} :
         /\ world = r.world
         /\ ret = [outcome |-> r.outcome, result |-> r.result, error |-> r.error,
                   scanRuns |-> r.scanRuns, installRuns |-> r.installRuns]
         /\ call = [allowInstall |-> TRUE, haveChromium |-> TRUE, world |-> w,
                    inst |-> NoInstall]
  /\ rpc = "done"
  /\ scan = NoScan
  /\ input = [NoInput EXCEPT !.fileExists = TRUE, !.html = HtmlWithHead]
  /\ dpc = "waitFirstPage"
  /\ exitCode = -1
  /\ browser = "open"
  /\ launchReport = NoLaunchReport
  /\ launchOptions = buildLaunchOptions(ret.result, world)
  /\ pdfExported = FALSE
  /\ failedStep = ""
  /\ log = <<"launch", "newPage", "goto", "addScriptTag">>
  /\ htmlContent = HtmlWithHead
  /\ document = HtmlWithHead
  /\ HelperOff
  /\ PagingStart

NextPaging ==
  \/ WaitFirstPage(PagingFirstPageDelays)
  \/ FirstPageTimeout
  \/ Poll(0..MaxPages, PagingLatencies)
  \/ PaginationTimeout
  \/ PaginationComplete

SpecPaging == InitPaging /\ [][NextPaging]_vars

\* the same, with the event loop running every awaited delay and poll to its
\* end: a step that can be taken is taken
SpecPagingFair == SpecPaging /\ WF_vars(NextPaging)

\* ------------------------------------------------------------------------
\* browser_helper.js run as a command (lines 387-408)
\*
\* A text is the sequence of its lines, a line the sequence of the parts its
\* colons separate, a part a word or a path.
\* ------------------------------------------------------------------------
Word(w) == [word |-> w, path |-> NullPath]

\* info.executablePath || ''
PathOrEmpty(p) == IF Falsy(p) THEN Word("") ELSE [word |-> "", path |-> p]

HelperMissingExit == 2
HelperErrorExit == 3

\* the exit status as it would be if it did not depend on the status
helperExit_AlwaysZero(status) == 0

\* process.exit(info.status === 'missing' ? 2 : 0)
helperExit(status) == IF status = "missing" THEN HelperMissingExit ELSE 0

\* `${info.status}:${info.executablePath || ''}`
StatusLine(info) == <<Word(info.status), PathOrEmpty(info.executablePath)>>

\* `error:${error.message || error}`
ErrorLine(message) == <<Word("error"), Word(message)>>

\* JSON.stringify({status: ...}, null, 2): the object on lines of its own
JsonText(status) == << <<Word("{")>>, <<Word("\"status\""), Word(status)>>, <<Word("}")>> >>

\* what `npx playwright install chromium` writes to the standard output it
\* inherits (stdio: 'inherit', browser_helper.js:115-118)
InstallerTexts ==
  { <<>>, << <<Word("Downloading Chromium from https"), Word("//cdn/chromium.zip")>> >> }

\* the command: what it prints itself, what its standard output and
\* standard error hold at the end, its exit status
helperMain(args, w, inst, installerText) ==
  LET r == resolveChromium([chromiumGiven |-> FALSE,
                            allowInstall |-> args.allowInstall], w, inst)
      inherited == IF r.installRuns > 0 THEN installerText ELSE <<>>
      printed == IF r.outcome = "returned"
                 THEN IF args.json THEN JsonText(r.result.status)
                      ELSE <<StatusLine(r.result)>>
                 ELSE IF args.json THEN <<>>
                      ELSE <<ErrorLine(r.error.message)>>
  IN [r |-> r,
      printed |-> printed,
      stdout |-> inherited \o printed,
      stderr |-> IF r.outcome = "thrown" /\ args.json THEN JsonText("error") ELSE <<>>,
      exit |-> IF r.outcome = "returned" THEN helperExit(r.result.status)
               ELSE HelperErrorExit]

\* one run of `node browser_helper.js [--allow-install] [--json]`
HelperRuns(args, inst, installerText) ==
  \E h \in {helperMain(args, world, inst, installerText)} :
    /\ world' = h.r.world
    /\ ret' = [outcome |-> h.r.outcome, result |-> h.r.result, error |-> h.r.error,
               scanRuns |-> h.r.scanRuns, installRuns |-> h.r.installRuns]
    /\ call' = [allowInstall |-> args.allowInstall,
                haveChromium |-> loadPlaywright(world.pw),
                world |-> world,
                inst |-> IF h.r.installRuns > 0 THEN inst ELSE NoInstall]
    /\ scan' = IF h.r.scanRuns > 0 THEN ScanOf(world) ELSE NoScan
    /\ rpc' = "done"
    /\ cli' = [ran |-> TRUE, allowInstall |-> args.allowInstall, json |-> args.json,
               printed |-> h.printed, stdout |-> h.stdout, stderr |-> h.stderr,
               exit |-> h.exit]

RunHelper ==
  /\ rpc = "idle" /\ cli = NoCli /\ setup = NoSetup
  /\ \E args \in [allowInstall : BOOLEAN, json : BOOLEAN],
        inst \in InstallerOutcomes, installerText \in InstallerTexts :
       HelperRuns(args, inst, installerText)
  /\ UNCHANGED <<driverVars, setup, otherVars>>

\* ------------------------------------------------------------------------
\* setup.sh: the browser check of its text and --json modes
\* ------------------------------------------------------------------------
\* node "$helper" 2>/dev/null: no arguments
SetupHelperArgs_AllowInstall == [allowInstall |-> TRUE, json |-> FALSE]

SetupHelperArgs == [allowInstall |-> FALSE, json |-> FALSE]

\* [[ -z "$text" ]]
IsEmptyText(text) == \A i \in DOMAIN text : text[i] = <<Word("")>>

ErrorStatus(message) == <<ErrorLine(message)>>

\* setup.sh:117-125, on the captured standard output and the exit status
browserStatusOf(output, code) ==
  IF IsEmptyText(output)
  THEN IF code = 0 THEN ErrorStatus("unknown") ELSE ErrorStatus("browser probe failed")
  ELSE output

HasColon(text) == \E i \in DOMAIN text : Len(text[i]) > 1

FirstColonLine(text) ==
  CHOOSE i \in DOMAIN text :
    Len(text[i]) > 1 /\ \A j \in 1..(i - 1) : Len(text[j]) = 1

\* "${status%%:*}": the text before the first colon
status_state(status) ==
  IF IsEmptyText(status) THEN <<>>
  ELSE IF HasColon(status)
  THEN LET k == FirstColonLine(status)
       IN SubSeq(status, 1, k - 1) \o << <<status[k][1]>> >>
  ELSE status

\* node is not installed, or cannot run the script, or runs it
NodeStates == {"absent", "broken", "works"}

\* verify_browser_usable and status_state "$BROWSER_STATUS" in cmd_check and
\* cmd_json; the help mode runs nothing
RunSetup ==
  /\ rpc = "idle" /\ cli = NoCli /\ setup = NoSetup
  /\ \E mode \in {"check", "json", "help"}, node \in NodeStates,
        helperThere \in BOOLEAN,
        inst \in InstallerOutcomes, installerText \in InstallerTexts :
       IF mode = "help"
       THEN /\ setup' = [NoSetup EXCEPT !.mode = mode]
            /\ UNCHANGED <<resolverVars, cli>>
       ELSE IF node = "absent" \/ ~helperThere \/ node = "broken"
       THEN /\ \E status \in
                 { IF node = "absent" THEN ErrorStatus("node not installed")
                   ELSE IF ~helperThere THEN ErrorStatus("helper missing")
                   ELSE browserStatusOf(<<>>, 1) } :
                 setup' = [mode |-> mode, BROWSER_STATUS |-> status,
                           browser_state |-> status_state(status)]
            /\ UNCHANGED <<resolverVars, cli>>
       ELSE /\ HelperRuns(SetupHelperArgs, inst, installerText)
            /\ \E status \in {browserStatusOf(cli'.stdout, cli'.exit)} :
                 setup' = [mode |-> mode, BROWSER_STATUS |-> status,
                           browser_state |-> status_state(status)]
  /\ UNCHANGED <<driverVars, otherVars>>

NextHelper ==
  \/ RunHelper
  \/ RunSetup

\* the cache directory holds at most this many entries when a command runs
MaxHelperCacheEntries == 1

InitHelper ==
  /\ WorldWithListing(MaxHelperCacheEntries)
  /\ DriverOff
  /\ HelperOff
  /\ rpc = "idle"
  /\ call = NoCall
  /\ ret = NoRet
  /\ scan = NoScan

SpecHelper == InitHelper /\ [][NextHelper]_vars

\* ------------------------------------------------------------------------
\* Two calls of resolveChromium in a row, without allowInstall, in one
\* process: the module keeps no state of its own between calls (its only
\* top-level bindings are the required modules and the functions)
\* ------------------------------------------------------------------------
\* resolveChromium(options), its answer kept in ret, call and scan
Resolves(options, inst) ==
  \E r \in {resolveChromium(options, world, inst)} :
    /\ world' = r.world
    /\ ret' = [outcome |-> r.outcome, result |-> r.result, error |-> r.error,
               scanRuns |-> r.scanRuns, installRuns |-> r.installRuns]
    /\ call' = [allowInstall |-> options.allowInstall,
                haveChromium |-> options.chromiumGiven \/ loadPlaywright(world.pw),
                world |-> world,
                inst |-> IF r.installRuns > 0 THEN inst ELSE NoInstall]
    /\ scan' = IF r.scanRuns > 0 THEN ScanOf(world) ELSE NoScan

FirstCall ==
  /\ rpc = "idle" /\ first = NoFirst
  /\ \E chromiumGiven \in BOOLEAN, inst \in InstallerOutcomes :
       /\ Resolves([chromiumGiven |-> chromiumGiven, allowInstall |-> FALSE], inst)
       /\ first' = [ran |-> TRUE, chromiumGiven |-> chromiumGiven,
                    worldBefore |-> world, ret |-> ret', scan |-> scan']
  /\ rpc' = "again"
  /\ UNCHANGED <<driverVars, cli, setup, parsed, shell>>

SecondCall ==
  /\ rpc = "again"
  /\ \E inst \in InstallerOutcomes :
       Resolves([chromiumGiven |-> first.chromiumGiven, allowInstall |-> FALSE], inst)
  /\ rpc' = "done"
  /\ UNCHANGED <<driverVars, helperVars>>

NextTwice ==
  \/ FirstCall
  \/ SecondCall

SpecTwice == InitResolver /\ [][NextTwice]_vars

\* ------------------------------------------------------------------------
\* html_to_pdf.js: parseArgs (lines 28-66) and path.resolve(outputFile)
\*
\* An argument is a flag, the empty string, or a file name: the components
\* of its directory and the parts of its base name that dots separate
\* ("docs/a.tar.html" is dir <<"docs">>, base <<"a", "tar", "html">>).
\* ------------------------------------------------------------------------
MaxArgs == 4

Flag(f) == [kind |-> "flag", flag |-> f, dir |-> <<>>, base |-> <<>>]
File(dir, base) == [kind |-> "file", flag |-> "", dir |-> dir, base |-> base]
EmptyArg == [kind |-> "empty", flag |-> "", dir |-> <<>>, base |-> <<>>]
Undefined == [kind |-> "undefined", flag |-> "", dir |-> <<>>, base |-> <<>>]

Arguments ==
  { Flag("--output"), Flag("-o"), Flag("--css"), Flag("-h"), EmptyArg,
    File(<<>>, <<"in", "html">>), File(<<"docs">>, <<"a", "tar", "html">>),
    File(<<>>, <<"report">>), File(<<"out">>, <<"x", "pdf">>),
    File(<<>>, <<"style", "css">>) }

ArgVectors == UNION { [1..n -> Arguments] : n \in 0..MaxArgs }

\* args[i], undefined past the end
ArgAt(args, i) == IF i \in DOMAIN args THEN args[i] ELSE Undefined

\* !value
FalsyArg(a) == a.kind \in {"undefined", "empty"}

\* the loop of lines 51-57, from index i on
RECURSIVE parseOptions(_, _, _, _)
parseOptions(args, i, outputFile, customCSS) ==
  IF i > Len(args) THEN [outputFile |-> outputFile, customCSS |-> customCSS]
  ELSE IF args[i] \in {Flag("--output"), Flag("-o")}
  THEN parseOptions(args, i + 2, ArgAt(args, i + 1), customCSS)
  ELSE IF args[i] = Flag("--css")
  THEN parseOptions(args, i + 2, outputFile, ArgAt(args, i + 1))
  ELSE parseOptions(args, i + 1, outputFile, customCSS)

\* path.parse(p).name: the base without its extension; a base that only
\* starts with a dot has none
parsedName(base) ==
  IF Len(base) >= 2 /\ ~(Len(base) = 2 /\ base[1] = "")
  THEN SubSeq(base, 1, Len(base) - 1)
  ELSE base

\* path.join(parsedPath.dir || '.', parsedPath.name + '.pdf'); join drops
\* the leading './'
derivedOutput(inputFile) ==
  IF inputFile.kind = "file"
  THEN File(inputFile.dir, parsedName(inputFile.base) \o <<"pdf">>)
  ELSE File(<<>>, <<inputFile.flag, "pdf">>)

\* path.resolve(p), line 118
resolvePath(p) == [p EXCEPT !.dir = <<"cwd">> \o @]

parseArgs(args) ==
  IF Len(args) = 0 \/ args[1] \in {Flag("--help"), Flag("-h")}
  THEN [help |-> TRUE, inputFile |-> Undefined, outputFile |-> Undefined,
        customCSS |-> Undefined]
  ELSE LET o == parseOptions(args, 2, Undefined, Undefined)
       IN [help |-> FALSE, inputFile |-> args[1],
           outputFile |-> IF FalsyArg(o.outputFile) THEN derivedOutput(args[1])
                          ELSE o.outputFile,
           customCSS |-> o.customCSS]

ParseArgs ==
  /\ parsed = NoParsed
  /\ \E args \in ArgVectors :
       \E a \in {parseArgs(args)} :
         parsed' = [ran |-> TRUE, args |-> args, help |-> a.help,
                    inputFile |-> a.inputFile, customCSS |-> a.customCSS,
                    outputPath |-> IF a.help THEN Undefined
                                   ELSE resolvePath(a.outputFile)]
  /\ UNCHANGED <<resolverVars, driverVars, cli, setup, first, shell>>

NextArgs == ParseArgs

InitArgs ==
  /\ world = MkWorld([present |-> TRUE, throws |-> FALSE, path |-> ExpDefault],
                     "exec", <<>>, <<>>, NoEnvironment, "absent", PlaywrightDefault)
  /\ DriverOff
  /\ HelperOff
  /\ rpc = "idle"
  /\ call = NoCall
  /\ ret = NoRet
  /\ scan = NoScan

SpecArgs == InitArgs /\ [][NextArgs]_vars

\* ------------------------------------------------------------------------
\* setup.sh: the component checks (setup.sh:22-281). A machine m is what the
\* commands the script runs find: m.node, m.npm and m.python3 say whether the
\* command is on PATH, m.npmVer and m.pyVer are the Playwright versions of
\* npm/npx and of python ("" for none), m.installed is the highest revision
\* among the cache directory's names, m.expected the one the dry run of the
\* installer names, m.pymods the importable python modules, m.probe what
\* `node browser_helper.js` prints and its exit status.
\* ------------------------------------------------------------------------
Status(state) == << <<Word(state)>> >>

StatusWith(state, detail) == << <<Word(state), Word(detail)>> >>

check_node(m) == IF m.node THEN StatusWith("ok", "20.11.0") ELSE Status("missing")

get_playwright_npm_version(m) == m.npmVer

get_playwright_python_version(m) == m.pyVer

get_installed_chromium_revision(m) == m.installed

get_expected_chromium_revision(m) == m.expected

verify_browser_usable(m) ==
  IF ~m.node THEN ErrorStatus("node not installed")
  ELSE IF ~m.helperThere THEN ErrorStatus("helper missing")
  ELSE browserStatusOf(m.probe.output, m.probe.code)

check_playwright(m) ==
  LET ver == get_playwright_npm_version(m)
  IN IF ver # "" THEN StatusWith("ok", ver) ELSE Status("missing")

check_chromium(m) ==
  LET revision == get_installed_chromium_revision(m)
  IN IF revision # "" THEN StatusWith("ok", "build-" \o revision) ELSE Status("missing")

check_playwright_chromium_match(m) ==
  LET playwright_ver == get_playwright_npm_version(m)
      installed == get_installed_chromium_revision(m)
      expected == get_expected_chromium_revision(m)
  IN IF playwright_ver = "" THEN Status("playwright_missing")
     ELSE IF installed = "" THEN Status("chromium_missing")
     ELSE IF expected = "" THEN StatusWith("ok", "unknown")
     ELSE IF installed = expected THEN StatusWith("ok", installed)
     ELSE StatusWith("mismatch", "have=" \o installed \o ",need=" \o expected)

\* cut -d. -f1,2
MajorMinor(ver) ==
  CASE ver \in {"1.40.0", "1.40.1"} -> "1.40"
    [] ver = "1.41.2" -> "1.41"
    [] OTHER -> ver

check_playwright_versions_sync(m) ==
  LET npm_ver == get_playwright_npm_version(m)
      py_ver == get_playwright_python_version(m)
  IN IF npm_ver = "" /\ py_ver = "" THEN Status("none_installed")
     ELSE IF npm_ver = "" \/ py_ver = "" THEN StatusWith("ok", "single")
     ELSE IF MajorMinor(npm_ver) = MajorMinor(py_ver) THEN StatusWith("ok", npm_ver)
     ELSE StatusWith("mismatch", "npm=" \o npm_ver \o ",python=" \o py_ver)

check_python(m) == IF m.python3 THEN StatusWith("ok", "3.11.4") ELSE Status("missing")

check_pymod(mod, m) ==
  IF m.python3 /\ mod \in m.pymods THEN StatusWith("ok", "installed")
  ELSE Status("missing")

\* [[ "$status" == ok* ]]; "ok" is the one word of the statuses that begins
\* with ok
status_is_ok(status) ==
  status # <<>> /\ status[1] # <<>> /\ status[1][1].word \in {"ok"}

\* the optional components (libreoffice, tectonic) are shown and never
\* change the verdict
collect_statuses(m) ==
  [NODE_STATUS |-> check_node(m),
   PLAYWRIGHT_STATUS |-> check_playwright(m),
   CHROMIUM_STATUS |-> check_chromium(m),
   BROWSER_STATUS |-> verify_browser_usable(m),
   MATCH_STATUS |-> check_playwright_chromium_match(m),
   SYNC_STATUS |-> check_playwright_versions_sync(m),
   PYTHON_STATUS |-> check_python(m),
   PIKEPDF_STATUS |-> check_pymod("pikepdf", m),
   PDFPLUMBER_STATUS |-> check_pymod("pdfplumber", m)]

SetupFailedExit == 2

\* setup.sh:307-439; exit_code is set to 2 at each of these places
setup_cmd_check(m) ==
  LET s == collect_statuses(m)
      browser_state == status_state(s.BROWSER_STATUS)
      match_state == IF browser_state = Status("fallback") THEN Status("ok")
                     ELSE status_state(s.MATCH_STATUS)
      sync_state == status_state(s.SYNC_STATUS)
      failed ==
        \/ ~status_is_ok(s.NODE_STATUS)
        \/ ~status_is_ok(s.PLAYWRIGHT_STATUS)
        \/ browser_state = Status("missing")
        \/ browser_state = Status("error")
        \/ /\ match_state = Status("mismatch")
           /\ browser_state # Status("ok") /\ browser_state # Status("fallback")
        \/ /\ match_state # Status("mismatch")
           /\ match_state = Status("chromium_missing")
           /\ browser_state # Status("missing")
        \/ /\ match_state # Status("mismatch")
           /\ ~(match_state = Status("chromium_missing")
                  /\ browser_state # Status("missing"))
           /\ match_state = Status("playwright_missing")
           /\ browser_state # Status("error")
        \/ sync_state = Status("mismatch")
        \/ ~status_is_ok(s.PYTHON_STATUS)
        \/ ~status_is_ok(s.PIKEPDF_STATUS)
        \/ ~status_is_ok(s.PDFPLUMBER_STATUS)
  IN [mode |-> "check", statuses |-> s,
      exit |-> IF failed THEN SetupFailedExit ELSE 0]

\* setup.sh:441-501
cmd_json(m) ==
  LET s == collect_statuses(m)
      browser_state == status_state(s.BROWSER_STATUS)
      match_state == status_state(s.MATCH_STATUS)
      failed ==
        \/ \E required \in {s.NODE_STATUS, s.PLAYWRIGHT_STATUS, s.CHROMIUM_STATUS,
                            s.PYTHON_STATUS, s.PIKEPDF_STATUS, s.PDFPLUMBER_STATUS} :
             ~status_is_ok(required)
        \/ browser_state # Status("ok")
        \/ match_state \in {Status("mismatch"), Status("chromium_missing"),
                            Status("playwright_missing")}
        \/ status_state(s.SYNC_STATUS) = Status("mismatch")
  IN [mode |-> "json", statuses |-> s,
      exit |-> IF failed THEN SetupFailedExit ELSE 0]

\* setup.sh:507-536: case "${1:-}"
setupMain(args, m) ==
  IF args # <<>> /\ args[1] \in {"--json", "-j"} THEN cmd_json(m)
  ELSE IF args # <<>> /\ args[1] \in {"-h", "--help", "help"}
  THEN [mode |-> "help", statuses |-> collect_statuses(m), exit |-> 0]
  ELSE setup_cmd_check(m)

\* ------------------------------------------------------------------------
\* pdf.sh (part_002). A run is the children it started, in order, with the
\* exit status of each, the machine it leaves and its own exit status.
\* ------------------------------------------------------------------------
UsageExit == 1
ToolMissingExit == 2
ChildFailedExit == 3

Child(command, exit) == [command |-> command, exit |-> exit]

PdfRun(children, exit, m) == [children |-> children, exit |-> exit, machine |-> m]

usage(m) == PdfRun(<<>>, UsageExit, m)

pdf_cmd_check(args, m) ==
  LET rc == setupMain(args, m).exit
  IN PdfRun(<<Child("setup.sh", rc)>>, rc, m)

LatestPlaywright == "1.41.2"

\* what the installers leave behind when they succeed: the newest
\* Playwright, the browser revision it expects, the two python modules
AfterNpmInstall(m) == [m EXCEPT !.npmVer = LatestPlaywright, !.expected = "5"]

AfterChromiumInstall(m) ==
  [m EXCEPT !.installed = IF m.expected # "" THEN m.expected ELSE "5",
            !.probe = [output |-> <<StatusLine([status |-> "ok",
                                               executablePath |-> ExpDefault])>>,
                       code |-> 0]]

AfterPipInstall(m) == [m EXCEPT !.pymods = {"pikepdf", "pdfplumber"}]

\* cmd_fix as it would be if it left out the check after a failed step
cmd_fix_ChecksOnlyAfterSuccess(m, steps) ==
  LET rcNode == IF m.npm THEN (IF steps.npm /\ steps.chromium THEN 0 ELSE ChildFailedExit)
                ELSE ToolMissingExit
      rc == IF m.python3 THEN (IF steps.pip THEN rcNode ELSE ChildFailedExit)
            ELSE ToolMissingExit
      check == setupMain(<<>>, m).exit
  IN IF rc # 0 THEN PdfRun(<<>>, rc, m)
     ELSE PdfRun(<<Child("setup.sh", check)>>,
                 IF check # 0 THEN ChildFailedExit ELSE rc, m)

\* part_002:47-84; steps says which of the installers succeeds when it runs
cmd_fix(m, steps) ==
  LET npmRuns == IF m.npm
                 THEN <<Child("npm install -g playwright", IF steps.npm THEN 0 ELSE 1),
                        Child("npx playwright install chromium",
                              IF steps.chromium THEN 0 ELSE 1)>>
                 ELSE <<>>
      m1 == IF m.npm /\ steps.npm THEN AfterNpmInstall(m) ELSE m
      m2 == IF m.npm /\ steps.chromium THEN AfterChromiumInstall(m1) ELSE m1
      rc1 == IF m.npm THEN (IF steps.npm THEN 0 ELSE ChildFailedExit) ELSE 0
      rc2 == IF m.npm THEN (IF steps.chromium THEN rc1 ELSE ChildFailedExit)
             ELSE ToolMissingExit
      pipRuns == IF m.python3
                 THEN <<Child("python3 -m pip install", IF steps.pip THEN 0 ELSE 1)>>
                 ELSE <<>>
      m3 == IF m.python3 /\ steps.pip THEN AfterPipInstall(m2) ELSE m2
      rc3 == IF m.python3 THEN (IF steps.pip THEN rc2 ELSE ChildFailedExit)
             ELSE ToolMissingExit
      check == setupMain(<<>>, m3).exit
      rc == IF check # 0 THEN ChildFailedExit ELSE rc3
  IN PdfRun(npmRuns \o pipRuns \o <<Child("setup.sh", check)>>, rc, m3)

\* cmd_html as it would be if it passed the converter's status on
cmd_html_PassesStatusOn(args, m, converterExit) ==
  IF args = <<>> THEN usage(m)
  ELSE IF ~m.node THEN PdfRun(<<>>, ToolMissingExit, m)
  ELSE PdfRun(<<Child("node html_to_pdf.js", converterExit)>>, converterExit, m)

\* part_002:86-99
cmd_html(args, m, converterExit) ==
  IF args = <<>> THEN usage(m)
  ELSE IF ~m.node THEN PdfRun(<<>>, ToolMissingExit, m)
  ELSE PdfRun(<<Child("node html_to_pdf.js", converterExit)>>,
              IF converterExit # 0 THEN ChildFailedExit ELSE 0, m)

\* part_002:101-127: cmd_latex and cmd_process
cmd_python(script, args, m, scriptExit) ==
  IF args = <<>> THEN usage(m)
  ELSE IF ~m.python3 THEN PdfRun(<<>>, ToolMissingExit, m)
  ELSE PdfRun(<<Child("python3 " \o script, scriptExit)>>,
              IF scriptExit # 0 THEN ChildFailedExit ELSE 0, m)

\* part_002:129-160
pdfMain(argv, m, childExit, steps) ==
  IF argv = <<>> THEN usage(m)
  ELSE LET command == argv[1]
           rest == Tail(argv)
       IN CASE command = "check" -> pdf_cmd_check(rest, m)
            [] command = "fix" -> IF rest # <<>> THEN usage(m) ELSE cmd_fix(m, steps)
            [] command = "html" -> cmd_html(rest, m, childExit)
            [] command = "latex" -> cmd_python("compile_latex.py", rest, m, childExit)
            [] command = "process" -> cmd_python("pdf.py", rest, m, childExit)
            [] OTHER -> usage(m)

\* ------------------------------------------------------------------------
\* The shell commands on one machine
\* ------------------------------------------------------------------------
Probes ==
  { [output |-> <<StatusLine([status |-> "ok", executablePath |-> ExpDefault])>>,
     code |-> 0],
    [output |-> <<StatusLine([status |-> "fallback", executablePath |-> EnvA])>>,
     code |-> 0],
    [output |-> <<StatusLine([status |-> "missing", executablePath |-> ExpDefault])>>,
     code |-> HelperMissingExit],
    [output |-> <<ErrorLine("Playwright not found")>>, code |-> HelperErrorExit],
    [output |-> <<>>, code |-> 1] }

BlankProbe == [output |-> <<>>, code |-> 1]

Machines ==
  { m \in [node : BOOLEAN, npm : BOOLEAN, npmVer : {"", "1.40.0", "1.41.2"},
           expected : {"", "5"}, installed : {"", "3", "5"},
           helperThere : BOOLEAN, probe : Probes,
           python3 : BOOLEAN, pyVer : {"", "1.40.1"},
           pymods : {{}, {"pikepdf"}, {"pikepdf", "pdfplumber"}}] :
      /\ ~m.node => (~m.npm /\ m.npmVer = "" /\ m.expected = "")
      /\ (~m.node \/ ~m.helperThere) => m.probe = BlankProbe
      /\ ~m.node => m.helperThere
      /\ ~m.python3 => (m.pyVer = "" /\ m.pymods = {}) }

SetupArgs == { <<>>, <<"--json">>, <<"--help">> }

PdfArgvs ==
  { <<>>, <<"check">>, <<"check", "--json">>, <<"fix">>, <<"fix", "now">>,
    <<"html">>, <<"html", "in.html">>, <<"latex">>, <<"latex", "a.tex">>,
    <<"process", "extract">>, <<"convert">> }

\* the exit statuses of html_to_pdf.js and of the python scripts
ChildExits == {0, MissingInputExit, BrowserMissingExit}

NoRun == [argv |-> <<>>, children |-> <<>>, exit |-> -1]

\* setup.sh [--json|--help], once each, before pdf.sh
RunSetupSh ==
  /\ shell.pdf = NoRun
  /\ \E args \in SetupArgs :
       \E r \in {setupMain(args, shell.machine)} :
         /\ shell.setupExit[r.mode] = -1
         /\ shell' = [shell EXCEPT !.ran = TRUE, !.setupExit[r.mode] = r.exit]
  /\ UNCHANGED <<resolverVars, driverVars, cli, setup, first, parsed>>

\* pdf.sh <command> [options], once
RunPdfSh ==
  /\ shell.pdf = NoRun
  /\ \E argv \in PdfArgvs, childExit \in ChildExits,
        steps \in [npm : BOOLEAN, chromium : BOOLEAN, pip : BOOLEAN] :
       \E r \in {pdfMain(argv, shell.machine, childExit, steps)} :
         shell' = [shell EXCEPT !.ran = TRUE,
                                !.before = shell.machine,
                                !.machine = r.machine,
                                !.pdf = [argv |-> argv, children |-> r.children,
                                         exit |-> r.exit]]
  /\ UNCHANGED <<resolverVars, driverVars, cli, setup, first, parsed>>

NextShell ==
  \/ RunSetupSh
  \/ RunPdfSh

InitShell ==
  /\ world = MkWorld([present |-> TRUE, throws |-> FALSE, path |-> ExpDefault],
                     "exec", <<>>, <<>>, NoEnvironment, "absent", PlaywrightDefault)
  /\ DriverOff
  /\ cli = NoCli /\ setup = NoSetup /\ first = NoFirst /\ parsed = NoParsed
  /\ \E m \in Machines :
       shell = [ran |-> FALSE, machine |-> m, before |-> m,
                setupExit |-> [mode \in {"check", "json", "help"} |-> -1],
                pdf |-> NoRun]
  /\ rpc = "idle"
  /\ call = NoCall
  /\ ret = NoRet
  /\ scan = NoScan

SpecShell == InitShell /\ [][NextShell]_vars

\* ------------------------------------------------------------------------
\* What a call of resolveChromium is expected to do, stated on the world the
\* call saw (call.world) and not on the resolver's own intermediate values
\* ------------------------------------------------------------------------
Resolved == rpc = "done"

\* the path chromium.executablePath() gave the call, NullPath if it threw
CallExpected ==
  IF call.world.chromium.throws THEN NullPath ELSE call.world.chromium.path

ExpectedExists == CallExpected # NullPath /\ CallExpected \in call.world.exists

EnvValues(w) ==
  {w.env[n] : n \in {"PLAYWRIGHT_CHROMIUM_PATH", "CHROMIUM_PATH", "BROWSER_PATH"}}
    \ {Unset}

ChromeDirNames == {"chromium", "Chromium", "chrome", "Chrome", "chromium_headless_shell"}

\* the executables below the browser directories of the cache directories
ExecutableCachePaths(w) ==
  UNION { { MkPath(w.cacheDirs[d][i].name, w.cacheDirs[d][i].digits, LinuxLeaves[k]) :
              i \in {j \in DOMAIN w.cacheDirs[d] :
                       w.cacheDirs[d][j].name \in ChromeDirNames},
              k \in DOMAIN LinuxLeaves } : d \in DOMAIN w.cacheDirs } \cap w.exec

SystemPaths ==
  {DirectPaths[i] : i \in DOMAIN DirectPaths}
    \cup {SysPath(Commands[i]) : i \in DOMAIN Commands}

\* every executable the fallback scan can offer
ExecutableCandidatePaths(w) ==
  ((EnvValues(w) \cup SystemPaths) \cap w.exec) \cup ExecutableCachePaths(w)

\* C1: when the expected path exists and is executable, the call returns
\* status 'ok' with exactly that path, isFallback false, source 'default',
\* and runs neither the fallback scan nor the installer.
C1_OkWithExpectedPath ==
  (Resolved /\ call.haveChromium /\ CallExpected \in call.world.exec) =>
    /\ ret.outcome = "returned"
    /\ ret.result.status = "ok"
    /\ ret.result.executablePath = CallExpected
    /\ ret.result.isFallback = FALSE
    /\ ret.result.source = "default"
    /\ ret.scanRuns = 0
    /\ ret.installRuns = 0

\* the expected path is executable, other candidates exist, installation is
\* allowed, and the call answered 'ok'
C1_Witness ==
  /\ Resolved /\ call.allowInstall
  /\ CallExpected \in call.world.exec
  /\ ExecutableCandidatePaths(call.world) # {}
  /\ ret.result.status = "ok"

\* C2: when the expected path does not exist and an executable cache
\* candidate exists, the call returns (does not throw, does not install)
\* status 'fallback', isFallback true, with the path of an existing
\* executable candidate.
C2_FallbackWhenCacheCandidate ==
  (Resolved /\ call.haveChromium /\ ~ExpectedExists
     /\ ExecutableCachePaths(call.world) # {}) =>
    /\ ret.outcome = "returned"
    /\ ret.installRuns = 0
    /\ ret.result.status = "fallback"
    /\ ret.result.isFallback = TRUE
    /\ ret.result.executablePath \in ExecutableCandidatePaths(call.world)

\* installation allowed, expected path absent, a cache executable chosen
C2_Witness ==
  /\ Resolved /\ call.allowInstall /\ ~ExpectedExists
  /\ ret.result.status = "fallback"
  /\ ret.result.source = "cache"
  /\ ret.result.executablePath \in ExecutableCachePaths(call.world)

KnownRevision(c) == c.revision # NoRev

Distance(c, R) == IF c.revision >= R THEN c.revision - R ELSE R - c.revision

ScanCandidates == {scan.candidates[i] : i \in DOMAIN scan.candidates}

\* C3: with a known expected revision R the candidate that
\* findExistingChromium returns is one of the candidates; if any candidate
\* has a known revision, the returned one has a known revision and its
\* |revision - R| is the least among the candidates with a known revision.
C3_ClosestKnownRevision ==
  (scan.ran /\ scan.expectedRevision # NoRev /\ ScanCandidates # {}) =>
    /\ scan.chosen \in ScanCandidates
    /\ (\E c \in ScanCandidates : KnownRevision(c)) =>
         /\ KnownRevision(scan.chosen)
         /\ \A c \in ScanCandidates :
              KnownRevision(c) =>
                Distance(scan.chosen, scan.expectedRevision)
                  <= Distance(c, scan.expectedRevision)

\* candidates R-2, R+5 and one of unknown revision: R-2 is chosen
C3_Witness ==
  /\ scan.ran /\ scan.expectedRevision # NoRev
  /\ \E c \in ScanCandidates : c.revision = scan.expectedRevision - 2
  /\ \E c \in ScanCandidates : c.revision = scan.expectedRevision + 5
  /\ \E c \in ScanCandidates : ~KnownRevision(c)
  /\ scan.chosen.revision = scan.expectedRevision - 2

\* C4: a result with status 'ok', 'fallback' or 'installed' names a path
\* that exists and is executable when it is checked.
C4_OnlyExecutablePathsReturned ==
  (Resolved /\ ret.outcome = "returned"
     /\ ret.result.status \in {"ok", "fallback", "installed"}) =>
    ret.result.executablePath \in
      (IF ret.result.status = "installed" THEN world.exec ELSE call.world.exec)

\* C5: with allowInstall = false the installer never runs and the call
\* returns; the status is 'missing' exactly when the expected path does not
\* exist and the scan has no executable candidate, and a 'missing' result
\* has isFallback false, revision null and the expected path or ''.
C5_MissingWithoutInstall ==
  (Resolved /\ ~call.allowInstall) =>
    /\ ret.installRuns = 0
    /\ call.haveChromium =>
         /\ ret.outcome = "returned"
         /\ (ret.result.status = "missing") <=>
              (~ExpectedExists /\ ExecutableCandidatePaths(call.world) = {})
         /\ (ret.result.status = "missing") =>
              /\ ret.result.isFallback = FALSE
              /\ ret.result.revision = NoRev
              /\ ret.result.source = "missing"
              /\ ret.result.executablePath =
                   (IF CallExpected = NullPath THEN EmptyPath ELSE CallExpected)

\* nothing usable, installation not allowed: 'missing'
C5_Witness ==
  /\ Resolved /\ ~call.allowInstall /\ call.haveChromium
  /\ ~ExpectedExists /\ ExecutableCandidatePaths(call.world) = {}
  /\ ret.result.status = "missing"

\* C6: with allowInstall = true, the expected path absent and no fallback
\* candidate, the installer runs once; the call returns 'installed' (source
\* 'install', isFallback false) exactly when the installer exited with 0 and
\* the expected path exists afterwards, and otherwise throws INSTALL_FAILED
\* and returns no result.
C6_InstallOrThrow ==
  (Resolved /\ call.haveChromium /\ call.allowInstall /\ ~ExpectedExists
     /\ ExecutableCandidatePaths(call.world) = {}) =>
    /\ ret.installRuns = 1
    /\ IF call.inst.status = 0 /\ CallExpected # NullPath
          /\ CallExpected \in world.exists
       THEN /\ ret.outcome = "returned"
            /\ ret.result.status = "installed"
            /\ ret.result.source = "install"
            /\ ret.result.isFallback = FALSE
            /\ ret.result.executablePath = CallExpected
       ELSE /\ ret.outcome = "thrown"
            /\ ret.error.code = "INSTALL_FAILED"
            /\ ret.result = NoResult

\* the installer ran, created the expected path and the call said 'installed'
C6_Witness ==
  /\ Resolved /\ call.allowInstall /\ ret.installRuns = 1
  /\ CallExpected \notin call.world.exists
  /\ CallExpected \in world.exists
  /\ ret.result.status = "installed"

\* C7: when the expected path is absent and an environment variable names
\* an existing executable, the call returns 'fallback' with that value and
\* source 'env', whatever other candidates exist.
C7_EnvironmentOverrides ==
  (Resolved /\ call.haveChromium /\ ~ExpectedExists
     /\ (EnvValues(call.world) \cap call.world.exec) # {}) =>
    /\ ret.result.status = "fallback"
    /\ ret.result.source = "env"
    /\ ret.result.executablePath \in (EnvValues(call.world) \cap call.world.exec)

\* C8: every call ends by returning a result with status ok, fallback,
\* installed or missing, or by throwing an error with a message; it never
\* ends any other way.
C8_ReturnsOrThrows ==
  Resolved =>
    /\ ret.outcome \in {"returned", "thrown"}
    /\ ret.outcome = "returned" =>
         /\ ret.result.status \in {"ok", "fallback", "installed", "missing"}
         /\ ret.error = NoError
    /\ ret.outcome = "thrown" =>
         /\ ret.error.message # ""
         /\ ret.result = NoResult

\* a call that threw because the installer failed
C8_Witness ==
  /\ Resolved /\ ret.outcome = "thrown"
  /\ ret.error.code = "INSTALL_FAILED"
  /\ call.inst.status = 1

\* ------------------------------------------------------------------------
\* The pagination wait
\* ------------------------------------------------------------------------
InStabilityLoop == dpc \in {"stability", "paginated"}

\* the three latest samples are the same
ThreeIdentical(w) ==
  /\ Len(w) >= 3
  /\ w[Len(w)] = w[Len(w) - 1]
  /\ w[Len(w) - 1] = w[Len(w) - 2]

\* each of the three latest samples equals the sample before it; the first
\* sample of all is compared with the initial lastPageCount, 0
ThreeUnchanged(w) ==
  /\ ThreeIdentical(w)
  /\ IF Len(w) = 3 THEN w[1] = 0 ELSE w[Len(w) - 3] = w[Len(w)]

\* C9 as claimed: the loop ends as stable exactly at the first poll at which
\* the three most recent samples are identical.
C9_StableAtThreeIdenticalSamples ==
  InStabilityLoop => ((stableCount >= StableChecks) <=> ThreeIdentical(samples))

\* C9 as amended: the loop ends as stable (without timeout) exactly at the
\* first poll at which each of the three most recent samples equals the
\* sample before it, that is after four identical samples in a row, or after
\* three samples of 0 at the very start; it ends by timeout only with fewer.
C9_StableAfterThreeUnchangedPolls ==
  InStabilityLoop =>
    /\ stableCount <= StableChecks
    /\ (stableCount = StableChecks) <=> ThreeUnchanged(samples)
    /\ dpc = "paginated" => ((timedOut = "none") <=> (stableCount = StableChecks))

\* the count went to 5 and held for three more polls: declared complete
C9_Witness ==
  /\ dpc = "paginated" /\ timedOut = "none"
  /\ samples = <<5, 5, 5, 5>>
  /\ stableCount = StableChecks /\ lastPageCount = 5

\* C10: when the pagination wait times out, in the wait for the first page
\* or in the stability loop, and nothing else fails, the driver exports the
\* PDF and exits with status 0.
C10_TimeoutIsNotFatal ==
  (dpc = "exited" /\ timedOut # "none" /\ failedStep = "") =>
    (exitCode = 0 /\ pdfExported)

\* one iteration of the stability loop: the delay and the poll
LoopIteration == dpc = "stability" /\ dpc' = "stability" /\ elapsed' # elapsed

\* the loop is left for the statement after it
LoopExit == dpc = "stability" /\ dpc' = "paginated"

\* C11: the stability loop terminates whatever the page counts are, as the
\* clock advances with every iteration; no iteration begins once the time
\* elapsed since startTime exceeds maxWaitTime or once stableCount is 3, and
\* the loop is left only with stableCount at 3 or with the deadline passed.
C11_StabilityLoopTerminates ==
  /\ [][LoopIteration => /\ elapsed <= maxWaitTime
                         /\ stableCount < StableChecks
                         /\ elapsed' >= elapsed + PollInterval]_vars
  /\ [][LoopExit => (stableCount = StableChecks \/ elapsed > maxWaitTime)]_vars
  /\ (dpc = "stability") ~> (dpc = "paginated")

\* the page count never held for three polls and the deadline ended the loop
C11_Witness ==
  /\ dpc = "paginated" /\ timedOut = "stability"
  /\ stableCount < StableChecks
  /\ elapsed > maxWaitTime

\* ------------------------------------------------------------------------
\* The run of the driver
\* ------------------------------------------------------------------------
\* the command line names an input file that is not there
MissingInputRun == ~input.help /\ ~input.fileExists

\* C12: given an input file path that does not exist, the driver exits with
\* a non-zero status before any browser interaction: the resolver is never
\* called (so the installer never runs), no browser is launched, no page is
\* created.
C12_MissingInputExitsBeforeBrowser ==
  MissingInputRun =>
    /\ dpc \in {"start", "exited"}
    /\ dpc = "exited" => exitCode > 0
    /\ rpc = "idle" /\ ret = NoRet /\ call = NoCall
    /\ browser = "none" /\ launchReport = NoLaunchReport /\ log = <<>>

\* the run with the missing input file has ended
C12_Witness ==
  /\ MissingInputRun /\ dpc = "exited" /\ exitCode = 1
  /\ rpc = "idle" /\ log = <<>>

\* the run ended because the resolver found no usable browser: it answered
\* 'missing', or it threw because the installation failed
BrowserUnavailableRun ==
  /\ dpc = "exited" /\ rpc = "done"
  /\ \/ ret.outcome = "thrown"
     \/ ret.outcome = "returned" /\ ret.result.status = "missing"

\* C13: whether installation is permitted or not, a run that ends because
\* no usable browser is available exits with a non-zero status that is
\* neither the status of a missing input file nor the status of a failed
\* conversion.
C13_BrowserUnavailableHasOwnExitCode ==
  BrowserUnavailableRun =>
    /\ exitCode > 0
    /\ exitCode # MissingInputExit
    /\ exitCode # ConversionFailedExit

\* the operation is in the log
Did(op) == \E i \in DOMAIN log : log[i] = op

\* how often it is
Count(op) == Cardinality({i \in DOMAIN log : log[i] = op})

\* chromium.launch resolved
LaunchSucceeded == Did("launch") /\ launchReport = NoLaunchReport

\* C14: in every run in which chromium.launch succeeded, browser.close() is
\* executed before the process terminates, on success and on the failure of
\* any step between page creation and PDF export.
C14_BrowserClosedBeforeExit ==
  (dpc = "exited" /\ LaunchSucceeded) => (browser = "closed" /\ Did("close"))

\* chromium.launch rejected
LaunchFailed == launchReport # NoLaunchReport

NamesLibraries(m) == "shared libraries" \in m \/ ".so" \in m
NamesExecutable(m) == "ENOENT" \in m \/ "executable" \in m

\* C15: a failure of chromium.launch is reported under exactly one of the
\* classes missing libraries, missing executable and generic; missing
\* libraries wins when the message matches both; the process then exits
\* with a non-zero status, no page is created and the launch is not
\* attempted again.
C15_LaunchFailureClassified ==
  LaunchFailed =>
    /\ launchReport.class \in {"libraries", "executable", "generic"}
    /\ (launchReport.class = "libraries") <=> NamesLibraries(launchReport.message)
    /\ (launchReport.class = "executable") <=>
         (NamesExecutable(launchReport.message)
            /\ ~NamesLibraries(launchReport.message))
    /\ dpc = "exited" /\ exitCode > 0
    /\ browser = "none"
    /\ log = <<"launch">>

\* a message that names a library and the executable: reported as libraries
C15_Witness ==
  /\ LaunchFailed /\ dpc = "exited" /\ exitCode = 1
  /\ launchReport.message = {".so", "executable"}
  /\ launchReport.class = "libraries"

\* C16: in every run the installer is invoked at most once, and only after
\* the expected-path check and the fallback scan have failed; the browser is
\* launched at most once, at most one page is created and page.pdf is
\* called at most once.
C16_NothingRetried ==
  /\ ret.installRuns <= 1
  /\ ret.installRuns = 1 =>
       /\ ~ExpectedExists
       /\ ret.scanRuns = 1
       /\ ExecutableCandidatePaths(call.world) = {}
  /\ ret.scanRuns <= 1
  /\ Count("launch") <= 1
  /\ Count("newPage") <= 1
  /\ Count("pdf") <= 1

\* a whole run: installer, launch, page and export, once each
C16_Witness ==
  /\ dpc = "exited" /\ exitCode = 0
  /\ ret.installRuns = 1
  /\ Count("launch") = 1 /\ Count("newPage") = 1 /\ Count("pdf") = 1

\* the first place of an operation in the log
Pos(op) == CHOOSE i \in DOMAIN log : log[i] = op /\ \A j \in 1..(i - 1) : log[j] # op

\* b is begun only after a
Before(a, b) == Did(b) => (Did(a) /\ Pos(a) < Pos(b))

\* C17: the steps of a run that exports a PDF occur in the order navigation
\* (to network idle), injection of the pagination script, first rendered
\* page observed, stability loop ended, page.pdf; page.pdf is never called
\* before the pagination wait has ended, the script is never injected
\* before the navigation has completed.
C17_PipelineOrder ==
  /\ Before("launch", "newPage")
  /\ Before("newPage", "goto")
  /\ Before("goto", "addScriptTag")
  /\ Before("addScriptTag", "waitForFunction")
  /\ Before("waitForFunction", "loopEnd")
  /\ Before("loopEnd", "pdf")
  /\ pdfExported =>
       log \in { <<"launch", "newPage", "goto", "addScriptTag", "waitForFunction",
                   "loopEnd", "pdf">> \o tail : tail \in {<<>>, <<"close">>} }

\* a PDF has been exported and the process has ended
C17_Witness ==
  /\ pdfExported /\ dpc = "exited" /\ exitCode = 0
  /\ log = <<"launch", "newPage", "goto", "addScriptTag", "waitForFunction",
             "loopEnd", "pdf", "close">>

\* the text has the style block where lines 131-135 put it
HasInjectedCss(text) ==
  \E i \in DOMAIN text :
    /\ text[i] = cssTag
    /\ \/ i < Len(text) /\ text[i + 1] = "</head>"
       \/ i = 1 /\ \A j \in DOMAIN text : text[j] # "</head>"

\* C19: with --css naming an existing file, the document the browser loads
\* and exports contains that CSS, before </head> or in front of an input
\* without </head>: it is the input with the style block, not the input
\* file as it is.
C19_LoadedDocumentHasCustomCss ==
  (input.css = "present" /\ document # NoHtml) =>
    (HasInjectedCss(document) /\ document # readFile(input))

\* ------------------------------------------------------------------------
\* The commands browser_helper.js and setup.sh
\* ------------------------------------------------------------------------
SetupChecked == setup.mode \in {"check", "json"}

StateWord(w) == << <<Word(w)>> >>

\* the world of the call holds no browser the resolver could use
NoBrowserAnywhere ==
  /\ call.haveChromium
  /\ ~ExpectedExists
  /\ ExecutableCandidatePaths(call.world) = {}

C20_HelperExitAndStatusLine ==
  /\ cli.ran =>
       /\ cli.exit \in {0, 2, 3}
       /\ (cli.exit = 0) <=> (/\ ret.outcome = "returned"
                              /\ ret.result.status \in {"ok", "fallback", "installed"})
       /\ (cli.exit = 2) <=> (ret.outcome = "returned" /\ ret.result.status = "missing")
       /\ (cli.exit = 3) <=> (ret.outcome = "thrown")
       /\ ~cli.json =>
            /\ Len(cli.printed) = 1
            /\ cli.printed[1] =
                 IF ret.outcome = "returned"
                 THEN << Word(ret.result.status),
                         IF ret.result.executablePath \in {NullPath, EmptyPath}
                         THEN Word("")
                         ELSE [word |-> "", path |-> ret.result.executablePath] >>
                 ELSE << Word("error"), Word(ret.error.message) >>
            /\ Len(cli.stdout) >= 1 /\ cli.stdout[Len(cli.stdout)] = cli.printed[1]
            /\ ret.installRuns = 0 => cli.stdout = cli.printed
  /\ SetupChecked =>
       setup.browser_state \in
         {StateWord(w) : w \in {"ok", "fallback", "installed", "missing", "error"}}

\* setup.sh has read 'fallback' from the line the helper printed
C20_Witness ==
  /\ SetupChecked /\ cli.ran /\ ~cli.json /\ cli.exit = 0
  /\ ret.result.status = "fallback"
  /\ setup.browser_state = StateWord("fallback")

OutputFlags == {Flag("--output"), Flag("-o")}

\* every flag after the input file is followed by nothing or by a file name,
\* and no file name stands alone
PlainCommandLine(args) ==
  /\ Len(args) >= 1 /\ args[1].kind = "file"
  /\ \A i \in 2..Len(args) :
       /\ args[i].kind \in {"flag", "file"}
       /\ args[i].kind = "flag" =>
            /\ args[i] # Flag("-h")
            /\ args[i - 1].kind = "file"
            /\ i < Len(args) => args[i + 1].kind = "file"
       /\ args[i].kind = "file" => args[i - 1].kind = "flag"

\* the places of the output flags that are followed by a value
GivenOutputs(args) == {i \in 2..(Len(args) - 1) : args[i] \in OutputFlags}

LastOf(S) == CHOOSE i \in S : \A j \in S : j <= i

\* the directory of the input and its base name with the extension
\* replaced by 'pdf'
DerivedPath(inputFile) ==
  LET b == inputFile.base
  IN [kind |-> "file", flag |-> "",
      dir |-> <<"cwd">> \o inputFile.dir,
      base |-> IF Len(b) >= 2 /\ b[1] # ""
               THEN [b EXCEPT ![Len(b)] = "pdf"] ELSE b \o <<"pdf">>]

\* C22: the PDF is written to the value given after --output or -o when one
\* is given, the last one if several, and otherwise to the input's
\* directory and base name with the extension replaced by .pdf; the first
\* argument is the input file.
C22_OutputPath ==
  (parsed.ran /\ PlainCommandLine(parsed.args)) =>
    /\ ~parsed.help
    /\ parsed.inputFile = parsed.args[1]
    /\ parsed.outputPath =
         IF GivenOutputs(parsed.args) # {}
         THEN LET v == parsed.args[LastOf(GivenOutputs(parsed.args)) + 1]
              IN [v EXCEPT !.dir = <<"cwd">> \o @]
         ELSE DerivedPath(parsed.args[1])


\* ------------------------------------------------------------------------
\* The order of the candidates
\* ------------------------------------------------------------------------
\* lower score first, then higher revision first
GoesFirst(a, b) ==
  LET sa == score(a, scan.expectedRevision)
      sb == score(b, scan.expectedRevision)
  IN sa < sb \/ (sa = sb /\ a.revision > b.revision)

Compared(a, b) == compareCandidates(a, b, scan.expectedRevision)

\* C23: of the candidates with the score of the returned one none has a
\* higher revision (for R-3 and R+3, R+3 is returned); the comparator puts a
\* before b exactly when a has the lower score, or the same score and the
\* higher revision, it is antisymmetric in sign and transitive.
C23_TieBreakHigherRevision ==
  (scan.ran /\ ScanCandidates # {}) =>
    /\ \A c \in ScanCandidates :
         score(c, scan.expectedRevision) = score(scan.chosen, scan.expectedRevision)
           => c.revision <= scan.chosen.revision
    /\ \A a \in ScanCandidates, b \in ScanCandidates :
         /\ (Compared(a, b) < 0) <=> GoesFirst(a, b)
         /\ (Compared(a, b) > 0) <=> GoesFirst(b, a)
         /\ \A c \in ScanCandidates :
              (Compared(a, b) <= 0 /\ Compared(b, c) <= 0) => Compared(a, c) <= 0

\* expected revision R, candidates R-2 and R+2 in this order: R+2 is returned
C23_Witness ==
  /\ scan.ran /\ scan.expectedRevision # NoRev
  /\ \E i \in DOMAIN scan.candidates, j \in DOMAIN scan.candidates :
       /\ i < j
       /\ scan.candidates[i].revision = scan.expectedRevision - 2
       /\ scan.candidates[j].revision = scan.expectedRevision + 2
  /\ scan.chosen.revision = scan.expectedRevision + 2

\* C24: when the expected revision is unknown, the returned candidate has a
\* known revision if any candidate has one, and then no candidate has a
\* higher revision.
C24_UnknownExpectedHighestRevision ==
  (scan.ran /\ scan.expectedRevision = NoRev /\ ScanCandidates # {}) =>
    /\ scan.chosen \in ScanCandidates
    /\ (\E c \in ScanCandidates : KnownRevision(c)) =>
         /\ KnownRevision(scan.chosen)
         /\ \A c \in ScanCandidates : c.revision <= scan.chosen.revision

\* no expected revision, candidates of revision 3, of revision 7 and of
\* unknown revision: 7 is returned
C24_Witness ==
  /\ scan.ran /\ scan.expectedRevision = NoRev
  /\ \E c \in ScanCandidates : c.revision = 3
  /\ \E c \in ScanCandidates : c.revision = 7
  /\ \E c \in ScanCandidates : ~KnownRevision(c)
  /\ scan.chosen.revision = 7

\* the revision the cache listing gives a path, NoRev if it lists it not
CacheRevisions(p, w) ==
  {e.revision : e \in {x \in {collectAllCaches(w.cacheDirs, w)[i] :
                                  i \in DOMAIN collectAllCaches(w.cacheDirs, w)} :
                          x.path = p}}

\* C25: no path is twice in the candidate list; a candidate named by an
\* environment variable has source 'env' and no revision, one not named by
\* the environment but listed in a cache directory has source 'cache' and
\* the revision of its directory, any other has source 'system' and no
\* revision; the candidate returned has one of these three sources.
C25_CandidatesDeduplicated ==
  scan.ran =>
    /\ \A i \in DOMAIN scan.candidates, j \in DOMAIN scan.candidates :
         scan.candidates[i].path = scan.candidates[j].path => i = j
    /\ \A c \in ScanCandidates :
         IF c.path \in EnvValues(call.world)
         THEN c.source = "env" /\ c.revision = NoRev
         ELSE IF CacheRevisions(c.path, call.world) # {}
         THEN c.source = "cache" /\ c.revision \in CacheRevisions(c.path, call.world)
         ELSE c.source = "system" /\ c.revision = NoRev
    /\ ScanCandidates # {} => scan.chosen.source \in {"env", "cache", "system"}
    /\ (ret.outcome = "returned" /\ ret.result.status = "fallback") =>
         ret.result.source \in {"env", "cache", "system"}

\* CHROMIUM_PATH names the executable of a cache directory: it is a
\* candidate once, from the environment
C25_Witness ==
  /\ scan.ran
  /\ EnvB \in EnvValues(call.world)
  /\ CacheRevisions(EnvB, call.world) = {3}
  /\ \E c \in ScanCandidates : c.path = EnvB /\ c.source = "env" /\ c.revision = NoRev


\* ------------------------------------------------------------------------
\* The shell commands
\* ------------------------------------------------------------------------
BothModesRan == shell.ran /\ shell.setupExit["check"] # -1 /\ shell.setupExit["json"] # -1

\* C26: on one machine `setup.sh` and `setup.sh --json` exit with the same
\* status, and it is 0 or 2.
C26_SetupModesAgree ==
  (BothModesRan /\ shell.pdf = NoRun) =>
    /\ shell.setupExit["check"] = shell.setupExit["json"]
    /\ shell.setupExit["check"] \in {0, 2}


PdfRan(command) == shell.pdf # NoRun /\ shell.pdf.argv # <<>> /\ shell.pdf.argv[1] = command

PdfArgs == Tail(shell.pdf.argv)

ChildrenNamed(command) ==
  {i \in DOMAIN shell.pdf.children : shell.pdf.children[i].command = command}

\* C28: `pdf.sh html` without an argument exits 1 and starts nothing; with an
\* argument and no node it exits 2 and starts nothing; with an argument and
\* node it runs the converter once, exits 0 exactly when the converter does
\* and 3 whenever the converter exits non-zero. `pdf.sh check` runs setup.sh
\* once and exits with its status, which is the status setup.sh has when it
\* is run by itself with the same arguments.
C28_HtmlAndCheckExitCodes ==
  /\ PdfRan("html") =>
       IF PdfArgs = <<>>
       THEN shell.pdf.exit = 1 /\ shell.pdf.children = <<>>
       ELSE IF ~shell.before.node
       THEN shell.pdf.exit = 2 /\ shell.pdf.children = <<>>
       ELSE /\ Len(shell.pdf.children) = 1
            /\ shell.pdf.children[1].command = "node html_to_pdf.js"
            /\ (shell.pdf.exit = 0) <=> (shell.pdf.children[1].exit = 0)
            /\ shell.pdf.children[1].exit # 0 => shell.pdf.exit = 3
  /\ PdfRan("check") =>
       /\ Len(shell.pdf.children) = 1
       /\ shell.pdf.children[1].command = "setup.sh"
       /\ shell.pdf.exit = shell.pdf.children[1].exit
       /\ \A mode \in {"check", "json"} :
            (shell.setupExit[mode] # -1
               /\ (mode = "json") = (PdfArgs = <<"--json">>))
              => shell.pdf.exit = shell.setupExit[mode]

\* the converter exited with 2 (no browser) and pdf.sh html with 3
C28_Witness ==
  /\ PdfRan("html")
  /\ shell.pdf.children # <<>>
  /\ shell.pdf.children[1].exit = 2
  /\ shell.pdf.exit = 3

InstallSteps ==
  {"npm install -g playwright", "npx playwright install chromium",
   "python3 -m pip install"}

Installs == {i \in DOMAIN shell.pdf.children : shell.pdf.children[i].command \in InstallSteps}

\* C29: every run of `pdf.sh fix` ends with one run of setup.sh, after all
\* the installers it started; it exits 0 only if npm and python3 were found,
\* the three installers ran and succeeded and setup.sh exited 0; otherwise
\* it exits 2 or 3, and 3 whenever an installer or setup.sh failed.
C29_FixChecksAndExitCodes ==
  (PdfRan("fix") /\ PdfArgs = <<>>) =>
    LET children == shell.pdf.children
        n == Len(children)
        failed == {i \in DOMAIN children : children[i].exit # 0}
    IN /\ n >= 1
       /\ ChildrenNamed("setup.sh") = {n}
       /\ shell.pdf.exit = 0 =>
            /\ shell.before.npm /\ shell.before.python3
            /\ {children[i].command : i \in Installs} = InstallSteps
            /\ failed = {}
       /\ shell.pdf.exit # 0 => shell.pdf.exit \in {2, 3}
       /\ failed # {} => shell.pdf.exit = 3

\* npm is found and its install fails, python3 is not found: setup.sh still
\* runs, and the exit status is 3
C29_Witness ==
  /\ PdfRan("fix") /\ PdfArgs = <<>>
  /\ shell.before.npm /\ ~shell.before.python3
  /\ \E i \in Installs : shell.pdf.children[i].exit # 0
  /\ ChildrenNamed("setup.sh") # {}
  /\ shell.pdf.exit = 3


\* ------------------------------------------------------------------------
\* The browser the driver launches
\* ------------------------------------------------------------------------
\* C27: a resolver result has isFallback exactly when its status is
\* 'fallback'; the options of chromium.launch name an executable exactly
\* when the result has isFallback, and then it is the result's path; for
\* 'ok' and 'installed' the result's path is the one the launch starts.
C27_LaunchesResolvedBrowser ==
  (rpc = "done" /\ ret.outcome = "returned") =>
    /\ ret.result.isFallback <=> (ret.result.status = "fallback")
    /\ Did("launch") =>
         /\ (launchOptions.executablePath # NullPath) <=> ret.result.isFallback
         /\ ret.result.isFallback =>
              launchOptions.executablePath = ret.result.executablePath
         /\ ret.result.status \in {"ok", "installed"} =>
              /\ ret.result.executablePath = launchOptions.starts
              /\ launchOptions.starts = getDefaultChromiumPath(world.chromium)

\* the resolver fell back to the system's browser and the driver launched it
C27_Witness ==
  /\ Did("launch")
  /\ ret.result.status = "fallback"
  /\ launchOptions.executablePath = SysPath("chromium")
  /\ launchOptions.starts = ret.result.executablePath

====
